---- MODULE Spec2Model ----
(***************************************************************************)
(* MASTERFORMAT City Cost Index converter: the city data assemblers, the   *)
(* page extraction strategies and the converter pipelines of the           *)
(* repository, as state machines.                                          *)
(*                                                                         *)
(* Numbers are the PDF's one-decimal figures in tenths (97.1 is 971).      *)
(* Python's None is the integer None; Python list index i is position i+1  *)
(* of a TLA+ sequence.                                                     *)
(***************************************************************************)
EXTENDS Integers, Sequences, FiniteSets, TLC

VARIABLES
    asm,          \* assembler under application (class of the method)
    asm_in,       \* its argument(s)
    asm_out,      \* its return value or the exception it raised
    asm_pc,       \* "ready" before the call, "done" after it
    strat,        \* extraction strategy under application
    strat_in,     \* the page it is applied to
    strat_out,    \* the cities it returns
    strat_pc,     \* "ready" before the call, "done" after it
    conv,         \* converter class of the run
    pc,           \* position of the run: start, pages, a strategy step, merge, done
    opened,       \* the document was opened
    num_pages,    \* doc.page_count
    page_idx,     \* pages processed so far
    cur_page,     \* content of the page under extraction
    page_cities,  \* cities of the page under extraction
    all_cities,   \* cities merged so far
    tried,        \* strategies applied to the page so far, each with its result
    page_log,     \* page_cities of every processed page, in page order
    doc_pages,    \* text lines of every page read so far
    fallback,     \* "none", "generator" (synthetic records) or "reparse"
    result,       \* return value of the run or the exception it raised
    gen,          \* class whose fallback generator is invoked
    rng,          \* state of the process-wide random module: last seed, draws since
    str_hash,     \* hash(city_name) % 1000 of the catalog names in this process
    gen_log,      \* what happened so far: invocations with their output, other random use
    val_data,     \* the mapping handed to the validator
    strict_mode,  \* JSONValidator.strict_mode
    error_handler,\* the ErrorHandler: errors, warnings, max_errors
    val_log,      \* the calls made so far, each with what it returned or raised
    row_line,     \* the text line handed to the row classifier
    row_first,    \* what parse_data_row returned for it
    row_text,     \* the line re-serialised from that result
    row_second,   \* what parse_data_row returned for the re-serialised line
    row_pc,       \* "ready", "parsed", "serialised", "reparsed"
    txt_in,       \* the text handed to a recognizer or the name and ZIP handed to a key builder
    txt_out,      \* what the functions returned for it
    txt_pc,       \* "ready" before the call, "done" after it
    main_pc,      \* position of MasterFormatConverter.convert_pdf_to_json
    main_env,     \* what the run meets: the parser's outcome, the files there, I/O failures
    main_files,   \* the files the run has written, in the order written
    main_handler, \* the ErrorHandler of the converter
    main_out      \* what the run returned or raised

asm_vars == <<asm, asm_in, asm_out, asm_pc>>

strat_vars == <<strat, strat_in, strat_out, strat_pc>>

pipe_vars == <<conv, pc, opened, num_pages, page_idx, cur_page, page_cities, all_cities,
               tried, page_log, doc_pages, fallback, result>>

gen_vars == <<gen, rng, str_hash, gen_log>>

\* the variables of the components outside the assemblers, strategies and pipelines
val_vars == <<val_data, strict_mode, error_handler, val_log>>

row_vars == <<row_line, row_first, row_text, row_second, row_pc>>

txt_vars == <<txt_in, txt_out, txt_pc>>

main_vars == <<main_pc, main_env, main_files, main_handler, main_out>>

aux_vars == <<gen_vars, val_vars, row_vars, txt_vars, main_vars>>

vars == <<asm, asm_in, asm_out, asm_pc, strat, strat_in, strat_out, strat_pc,
          conv, pc, opened, num_pages, page_idx, cur_page, page_cities, all_cities,
          tried, page_log, doc_pages, fallback, result,
          gen, rng, str_hash, gen_log,
          val_data, strict_mode, error_handler, val_log,
          row_line, row_first, row_text, row_second, row_pc,
          txt_in, txt_out, txt_pc,
          main_pc, main_env, main_files, main_handler, main_out>>

----------------------------------------------------------------------------
(* Bounds of the model *)

\* most numbers one extracted row or line carries (the PDF's rows carry 20)
MaxRowLen == 21

\* largest seed hash(city_name) % 1000 explored for the per-process string hash
HashSeeds == 3

\* pages of a document
MaxPages == 2

\* entries of the city catalogs of the fallback generators that are modelled
CatalogSize == 2

\* events of a generator history: invocations, other random use, restarts
MaxGenEvents == 3

\* calls made on one validator
MaxValCalls == 3

\* largest limit of an error handler
MaxLimit == 3

\* calls made on one error handler
MaxErrCalls == 5

\* value tokens of a line handed to the row classifier
MaxValues == 2

\* fraction digits a number of a line is held with
FracDigits == 2

\* items of a ZIP spec
MaxZipItems == 2

----------------------------------------------------------------------------
(* Program constants *)

None == -1

\* ErrorHandler.__init__: max_errors: int = 100
DefaultMaxErrors == 100

\* _is_valid_city_name: len(city_name) < 3
MinNameLength == 3

\* _validate_numeric_value: value > 1000, in tenths
UnusualAbove == 10000

\* numbers[:13], range(13), sub_idx < 13
NumMain == 13

\* len(numbers) >= 10
MinRowValues == 10

\* PDFParser: len(inst_numbers) >= 15
ParserMinInst == 15

\* MasterFormatConverter._fallback_parse: len(numbers) >= 15
FallbackMinNumbers == 15

\* FinalWorkingExtractor._structure_city_data: max_divisions < 5
MinDivisions == 5

\* PDFParser._build_city_data_simple: 20  # Safety limit
SafetyLimit == 20

EmptyMap == [x \in {} |-> 0]

DataTypeSet == {"MAT", "INST", "TOTAL"}

\* the 13 main divisions, (code, description), in schema order
main_divisions ==
    << <<"015433", "CONTRACTOR EQUIPMENT">>,
       <<"0241, 31 - 34", "SITE & INFRASTRUCTURE, DEMOLITION">>,
       <<"03", "CONCRETE">>,
       <<"04", "MASONRY">>,
       <<"05", "METALS">>,
       <<"06", "WOOD, PLASTICS & COMPOSITES">>,
       <<"07", "THERMAL & MOISTURE PROTECTION">>,
       <<"08", "OPENINGS">>,
       <<"09", "FINISHES">>,
       <<"COVERS", "DIVS. 10 - 14, 25, 28, 41, 43, 44, 46">>,
       <<"21, 22, 23", "FIRE SUPPRESSION, PLUMBING & HVAC">>,
       <<"26, 27, 3370", "ELECTRICAL, COMMUNICATIONS & UTIL.">>,
       <<"MF2018", "WEIGHTED AVERAGE">> >>

concrete_subs ==
    << <<"0310", "Concrete Forming & Accessories">>,
       <<"0320", "Concrete Reinforcing">>,
       <<"0330", "Cast-in-Place Concrete">> >>

finishes_subs ==
    << <<"0920", "Plaster & Gypsum Board">>,
       <<"0950, 0980", "Ceilings & Acoustic Treatment">>,
       <<"0960", "Flooring">>,
       <<"0970, 0990", "Wall Finishes & Painting/Coating">> >>

\* FinalFixedConverter: finishes_indices = [8, 9, 10, 11]  # Approximate positions
finishes_indices == <<8, 9, 10, 11>>

\* constants.py: the 20 codes of a PDF row, subdivisions inline
DIVISION_CODES ==
    << "015433", "0241, 31 - 34", "0310", "0320", "0330", "03", "04", "05",
       "06", "07", "08", "0920", "0950, 0980", "0960", "0970, 0990", "09",
       "COVERS", "21, 22, 23", "26, 27, 3370", "MF2018" >>

DIVISION_DESCRIPTIONS ==
    << "CONTRACTOR EQUIPMENT", "SITE & INFRASTRUCTURE, DEMOLITION",
       "Concrete Forming & Accessories", "Concrete Reinforcing",
       "Cast-in-Place Concrete", "CONCRETE", "MASONRY", "METALS",
       "WOOD, PLASTICS & COMPOSITES", "THERMAL & MOISTURE PROTECTION",
       "OPENINGS", "Plaster & Gypsum Board", "Ceilings & Acoustic Treatment",
       "Flooring", "Wall Finishes & Painting/Coating", "FINISHES",
       "DIVS. 10 - 14, 25, 28, 41, 43, 44, 46", "FIRE SUPPRESSION, PLUMBING & HVAC",
       "ELECTRICAL, COMMUNICATIONS & UTIL.", "WEIGHTED AVERAGE" >>

----------------------------------------------------------------------------
(* Helpers: Python built-ins *)

Min2(a, b) == IF a <= b THEN a ELSE b

\* lst[:n]
Prefix(lst, n) == SubSeq(lst, 1, Min2(n, Len(lst)))

\* lst[a:b]
Slice(lst, a, b) == SubSeq(lst, a + 1, Min2(b, Len(lst)))

\* min(len(v) for v in city_data.values() if v); the set of those lengths
NonEmptyLens(city_data) ==
    {Len(city_data[t]) : t \in {u \in DOMAIN city_data : Len(city_data[u]) > 0}}

SetMin(S) == CHOOSE m \in S : \A x \in S : m <= x

\* return value / raised exception of a call
Returned(v) == [exc |-> "none", val |-> v]
Raised(e) == [exc |-> e, val |-> EmptyMap]

----------------------------------------------------------------------------
(* City data assemblers.  city_data maps a subset of MAT/INST/TOTAL to the  *)
(* list of numbers of that row; a structured record maps division codes to  *)
(* entries; an entry maps "division" to the description, a data type to its *)
(* value and "subdivisions" to a map of entries.                            *)

\* for data_type in ["MAT", "INST", "TOTAL"]:
\*     if data_type in city_data and idx < len(city_data[data_type]):
\*         value = city_data[data_type][idx]
\*         if value is not None: entry[data_type] = value
DataFields(city_data, idx) ==
    [t \in {u \in DataTypeSet \cap DOMAIN city_data :
                idx < Len(city_data[u]) /\ city_data[u][idx + 1] # None}
        |-> city_data[t][idx + 1]]

\* the same loop where the source has no None test
DataFieldsRaw(city_data, idx) ==
    [t \in {u \in DataTypeSet \cap DOMAIN city_data : idx < Len(city_data[u])}
        |-> city_data[t][idx + 1]]

\* a division test that keeps every division
HasData_always(division_data) == TRUE

\* any(key in division_data for key in ["MAT", "INST", "TOTAL"]) or "subdivisions" in division_data
HasData(division_data) ==
    \/ DOMAIN division_data \cap DataTypeSet # {}
    \/ "subdivisions" \in DOMAIN division_data

\* if subdivisions: division_data["subdivisions"] = subdivisions
AttachSubdivisions(subdivisions) ==
    IF DOMAIN subdivisions # {} THEN "subdivisions" :> subdivisions ELSE EmptyMap

MainIndex(code) == CHOOSE i \in 0..(Len(main_divisions) - 1) : main_divisions[i + 1][1] = code

SubIndex(subs, code) == CHOOSE j \in 0..(Len(subs) - 1) : subs[j + 1][1] = code

(* ---- complete_converter.py: FinalFixedConverter ---- *)

\* sub_idx = i + j + 1  # Next indices after main division
FinalFixedConverter_concrete_sub_idx(i, j) == i + j + 1

\* sub_idx = finishes_indices[j]
FinalFixedConverter_finishes_sub_idx(i, j) == finishes_indices[j + 1]

FinalFixedConverter_subdivisions(city_data, i, div_code) ==
    IF div_code = "0241, 31 - 34" THEN
        LET idx(j) == FinalFixedConverter_concrete_sub_idx(i, j)
            js == {j \in 0..(Len(concrete_subs) - 1) :
                      idx(j) < NumMain /\ DOMAIN DataFields(city_data, idx(j)) # {}}
        IN  [c \in {concrete_subs[j + 1][1] : j \in js} |->
                LET j == SubIndex(concrete_subs, c)
                IN  ("division" :> concrete_subs[j + 1][2]) @@ DataFields(city_data, idx(j))]
    ELSE IF div_code = "09" THEN
        LET idx(j) == FinalFixedConverter_finishes_sub_idx(i, j)
            js == {j \in 0..(Len(finishes_subs) - 1) :
                      j < Len(finishes_indices) /\ DOMAIN DataFields(city_data, idx(j)) # {}}
        IN  [c \in {finishes_subs[j + 1][1] : j \in js} |->
                LET j == SubIndex(finishes_subs, c)
                IN  ("division" :> finishes_subs[j + 1][2]) @@ DataFields(city_data, idx(j))]
    ELSE EmptyMap

FinalFixedConverter_division_data(city_data, i) ==
    ("division" :> main_divisions[i + 1][2])
        @@ DataFields(city_data, i)
        @@ AttachSubdivisions(
               FinalFixedConverter_subdivisions(city_data, i, main_divisions[i + 1][1]))

FinalFixedConverter_structure_city_data(city_data) ==
    LET kept == {i \in 0..(Len(main_divisions) - 1) :
                    HasData(FinalFixedConverter_division_data(city_data, i))}
    IN  [c \in {main_divisions[i + 1][1] : i \in kept} |->
            FinalFixedConverter_division_data(city_data, MainIndex(c))]

\* _clean_structure, one city: only keep main divisions
FinalFixedConverter_clean_city(city) ==
    [c \in {main_divisions[i][1] : i \in 1..Len(main_divisions)} \cap DOMAIN city |-> city[c]]

(* ---- real_pdf_extractor.py: FinalWorkingExtractor ---- *)

\* max_divisions = min(13, min(len(values) for values in city_data.values() if values))
FinalWorkingExtractor_max_divisions(city_data) ==
    Min2(NumMain, SetMin(NonEmptyLens(city_data)))

\* sub_idx = i + j + 1
FinalWorkingExtractor_sub_idx(i, j) == i + j + 1

FinalWorkingExtractor_subdivisions(city_data, i, div_code, max_divisions) ==
    LET subs == IF div_code = "0241, 31 - 34" THEN concrete_subs
                ELSE IF div_code = "09" THEN finishes_subs ELSE << >>
        idx(j) == FinalWorkingExtractor_sub_idx(i, j)
        js == {j \in 0..(Len(subs) - 1) :
                  idx(j) < max_divisions /\ DOMAIN DataFieldsRaw(city_data, idx(j)) # {}}
    IN  [c \in {subs[j + 1][1] : j \in js} |->
            LET j == SubIndex(subs, c)
            IN  ("division" :> subs[j + 1][2]) @@ DataFieldsRaw(city_data, idx(j))]

FinalWorkingExtractor_division_data(city_data, i, max_divisions) ==
    ("division" :> main_divisions[i + 1][2])
        @@ DataFields(city_data, i)
        @@ AttachSubdivisions(
               FinalWorkingExtractor_subdivisions(
                   city_data, i, main_divisions[i + 1][1], max_divisions))

FinalWorkingExtractor_structure_city_data(city_data) ==
    IF NonEmptyLens(city_data) = {} THEN Raised("ValueError")   \* min() of an empty sequence
    ELSE LET max_divisions == FinalWorkingExtractor_max_divisions(city_data)
             kept == {i \in 0..(max_divisions - 1) :
                         HasData(FinalWorkingExtractor_division_data(city_data, i, max_divisions))}
         IN  IF max_divisions < MinDivisions THEN Returned(EmptyMap)
             ELSE Returned(
                 [c \in {main_divisions[i + 1][1] : i \in kept} |->
                     FinalWorkingExtractor_division_data(city_data, MainIndex(c), max_divisions)])

(* ---- extract_all_cities.py: CompleteRealExtractor ---- *)

\* "0241, 31 - 34": i + 3 < len(MAT);  "09": i + 4 < len(MAT)
CompleteRealExtractor_subs_of(city_data, i, div_code) ==
    LET mat_len == IF "MAT" \in DOMAIN city_data THEN Len(city_data["MAT"]) ELSE 0
    IN  IF div_code = "0241, 31 - 34" /\ i + Len(concrete_subs) < mat_len THEN concrete_subs
        ELSE IF div_code = "09" /\ i + Len(finishes_subs) < mat_len THEN finishes_subs
        ELSE << >>

\* city_data[T][i+k] is read for every T in city_data: IndexError when a list is shorter
CompleteRealExtractor_index_error(city_data, i) ==
    LET subs == CompleteRealExtractor_subs_of(city_data, i, main_divisions[i + 1][1])
    IN  \E t \in DataTypeSet \cap DOMAIN city_data : Len(subs) > 0 /\ Len(city_data[t]) <= i + Len(subs)

\* "MAT": city_data["MAT"][i+k] if "MAT" in city_data else None, ...; None values removed
CompleteRealExtractor_sub_data(city_data, idx, sub_desc) ==
    ("division" :> sub_desc)
        @@ [t \in {u \in DataTypeSet \cap DOMAIN city_data : city_data[u][idx + 1] # None}
               |-> city_data[t][idx + 1]]

CompleteRealExtractor_division_data(city_data, i) ==
    LET subs == CompleteRealExtractor_subs_of(city_data, i, main_divisions[i + 1][1])
        \* any(subdivisions.values()): every value holds "division", so it is attached whole
        subdivisions ==
            [c \in {subs[k][1] : k \in 1..Len(subs)} |->
                LET j == SubIndex(subs, c)
                IN  CompleteRealExtractor_sub_data(city_data, i + j + 1, subs[j + 1][2])]
    IN  ("division" :> main_divisions[i + 1][2])
            @@ DataFields(city_data, i)
            @@ AttachSubdivisions(subdivisions)

CompleteRealExtractor_create_structured_data(city_data) ==
    IF \E i \in 0..(Len(main_divisions) - 1) : CompleteRealExtractor_index_error(city_data, i)
    THEN Raised("IndexError")
    ELSE LET kept == {i \in 0..(Len(main_divisions) - 1) :
                         HasData(CompleteRealExtractor_division_data(city_data, i))}
         IN  Returned(
                 [c \in {main_divisions[i + 1][1] : i \in kept} |->
                     CompleteRealExtractor_division_data(city_data, MainIndex(c))])

(* ---- corrected_final_converter.py: CorrectedFinalConverter ---- *)

\* if i < len(values) and values[i] is not None, for the three value arrays
CorrectedFinalConverter_main_fields(city_data, i) == DataFields(city_data, i)

\* concrete: sub_values = concrete_subs[j]; [0] is MAT, [1] INST, [2] TOTAL, None skipped
CorrectedFinalConverter_concrete_sub(sub_values, sub_desc) ==
    ("division" :> sub_desc)
        @@ (IF Len(sub_values) >= 1 /\ sub_values[1] # None THEN "MAT" :> sub_values[1] ELSE EmptyMap)
        @@ (IF Len(sub_values) >= 2 /\ sub_values[2] # None THEN "INST" :> sub_values[2] ELSE EmptyMap)
        @@ (IF Len(sub_values) >= 3 /\ sub_values[3] # None THEN "TOTAL" :> sub_values[3] ELSE EmptyMap)

\* finishes: finishes_subs[0][j] is MAT, [1][j] INST, [2][j] TOTAL, no None test
CorrectedFinalConverter_finishes_sub(arrays, j, sub_desc) ==
    ("division" :> sub_desc)
        @@ (IF Len(arrays) >= 1 /\ j < Len(arrays[1]) THEN "MAT" :> arrays[1][j + 1] ELSE EmptyMap)
        @@ (IF Len(arrays) >= 2 /\ j < Len(arrays[2]) THEN "INST" :> arrays[2][j + 1] ELSE EmptyMap)
        @@ (IF Len(arrays) >= 3 /\ j < Len(arrays[3]) THEN "TOTAL" :> arrays[3][j + 1] ELSE EmptyMap)

CorrectedFinalConverter_subdivisions(data_arrays, div_code) ==
    IF div_code = "0241, 31 - 34" THEN
        LET js == {j \in 0..(Len(concrete_subs) - 1) : j < Len(data_arrays.concrete)}
        IN  [c \in {concrete_subs[j + 1][1] : j \in js} |->
                LET j == SubIndex(concrete_subs, c)
                IN  CorrectedFinalConverter_concrete_sub(
                        data_arrays.concrete[j + 1], concrete_subs[j + 1][2])]
    ELSE IF div_code = "09" THEN
        LET js == {j \in 0..(Len(finishes_subs) - 1) : j < Len(data_arrays.finishes[1])}
        IN  [c \in {finishes_subs[j + 1][1] : j \in js} |->
                LET j == SubIndex(finishes_subs, c)
                IN  CorrectedFinalConverter_finishes_sub(
                        data_arrays.finishes, j, finishes_subs[j + 1][2])]
    ELSE EmptyMap

\* city_data[div_code] = division_data, for every main division
CorrectedFinalConverter_build_sample_city_data(data_arrays) ==
    [c \in {main_divisions[i][1] : i \in 1..Len(main_divisions)} |->
        ("division" :> main_divisions[MainIndex(c) + 1][2])
            @@ CorrectedFinalConverter_main_fields(data_arrays.city_data, MainIndex(c))
            @@ AttachSubdivisions(CorrectedFinalConverter_subdivisions(data_arrays, c))]

(* ---- parser.py: PDFParser ---- *)

\* min(len(DIVISION_CODES), len(inst) if inst else 0, len(total) if total else len(inst), 20)
PDFParser_max_divisions(inst_numbers, total_numbers) ==
    Min2(Min2(Len(DIVISION_CODES), Len(inst_numbers)),
         Min2(IF Len(total_numbers) > 0 THEN Len(total_numbers) ELSE Len(inst_numbers),
              SafetyLimit))

PDFParser_division_data(inst_numbers, total_numbers, i) ==
    ("division" :> DIVISION_DESCRIPTIONS[i + 1])
        @@ (IF Len(inst_numbers) > 0 /\ i < Len(inst_numbers)
            THEN "INST" :> inst_numbers[i + 1] ELSE EmptyMap)
        @@ (IF Len(total_numbers) > 0 /\ i < Len(total_numbers)
            THEN "TOTAL" :> total_numbers[i + 1] ELSE EmptyMap)

CodeIndex(code) == CHOOSE i \in 0..(Len(DIVISION_CODES) - 1) : DIVISION_CODES[i + 1] = code

PDFParser_build_city_data_simple(inst_numbers, total_numbers) ==
    LET kept == {i \in 0..(PDFParser_max_divisions(inst_numbers, total_numbers) - 1) :
                    DOMAIN PDFParser_division_data(inst_numbers, total_numbers, i)
                        \cap {"INST", "TOTAL"} # {}}
    IN  [c \in {DIVISION_CODES[i + 1] : i \in kept} |->
            PDFParser_division_data(inst_numbers, total_numbers, CodeIndex(c))]

(* ---- final_converter.py: MasterFormatConverter ---- *)

FinalConverter_max_divisions(inst_numbers, total_numbers) ==
    LET m == Min2(Len(DIVISION_CODES), Len(inst_numbers))
    IN  IF Len(total_numbers) > 0 THEN Min2(m, Len(total_numbers)) ELSE m

FinalConverter_build_city_data(inst_numbers, total_numbers) ==
    IF Len(inst_numbers) = 0 THEN EmptyMap
    ELSE [c \in {DIVISION_CODES[i + 1] :
                    i \in 0..(FinalConverter_max_divisions(inst_numbers, total_numbers) - 1)} |->
            LET i == CodeIndex(c)
            IN  ("division" :> DIVISION_DESCRIPTIONS[i + 1])
                    @@ ("INST" :> inst_numbers[i + 1])
                    @@ (IF Len(total_numbers) > 0 /\ i < Len(total_numbers)
                        THEN "TOTAL" :> total_numbers[i + 1] ELSE EmptyMap)]

\* _build_simple_city_data
FinalConverter_build_simple_city_data(numbers) ==
    [c \in {DIVISION_CODES[i + 1] : i \in 0..(Min2(Len(DIVISION_CODES), Len(numbers)) - 1)} |->
        ("division" :> DIVISION_DESCRIPTIONS[CodeIndex(c) + 1])
            @@ ("INST" :> numbers[CodeIndex(c) + 1])]

----------------------------------------------------------------------------
(* Hardcoded sample data of the sources, in tenths *)

\* complete_converter.py _create_proper_sample_data: sample_cities_data
FinalFixedConverter_sample_cities_data ==
    [k \in {"ABILENE_382", "BIRMINGHAM_350-352", "LOS_ANGELES_900-902"} |->
        IF k = "ABILENE_382" THEN
            [MAT |-> <<971, 1001, 1038, 968, 1153, 953, 1127, 977, 982, 1102, 880, 1138, 1001, 1031, 1039, 1004, 981, 1003, 962>>,
             INST |-> <<None, 742, 846, 576, 660, 614, 678, 592, 624, 569, 526, 522, 591, 592, 501, 821, 627, 497, 614>>,
             TOTAL |-> <<971, 847, 914, 692, 819, 819, 865, 812, 820, 911, 693, 748, 743, 922, 712, 883, 773, 702, 834>>]
        ELSE IF k = "BIRMINGHAM_350-352" THEN
            [MAT |-> <<1024, 951, 1583, 968, 1084, 851, 969, 939, 990, 1006, 1030, 856, 782, 956, 895, 1000, 960, 1002, 980>>,
             INST |-> <<1059, 1028, 683, 680, 741, 710, 628, 819, 685, 698, 680, 675, 675, 696, 515, 666, 860, 639, 641>>,
             TOTAL |-> <<1059, 1004, 752, 1175, 977, 937, 722, 943, 886, 912, 979, 809, 693, 978, 715, 811, 970, 870, 853>>]
        ELSE
            [MAT |-> <<979, 908, 1239, 1012, 1162, 1146, 1075, 868, 899, 1018, 1086, 958, 1006, 891, 985, 1000, 926, 907, 1008>>,
             INST |-> <<1011, 1027, 1420, 1340, 1323, 1365, 1407, 1219, 1405, 1350, 1390, 1417, 1417, 1207, 1306, 1369, 1189, 1298, 1358>>,
             TOTAL |-> <<1011, 1066, 1342, 1086, 1067, 1150, 1184, 1038, 1179, 1059, 1162, 1340, 1319, 1101, 1179, 1239, 1040, 1108, 1168>>]]

\* corrected_final_converter.py _create_corrected_sample_data: the data_arrays of each city
CorrectedFinalConverter_sample_arrays ==
    [k \in {"ABILENE_382", "BIRMINGHAM_350-352", "LOS_ANGELES_900-902"} |->
        IF k = "ABILENE_382" THEN
            [city_data |->
                [MAT |-> <<971, 1001, 953, 1127, 977, 982, 1102, 880, None, 1004, 981, 1003, 962>>,
                 INST |-> <<None, 742, 614, 678, 592, 624, 569, 526, None, 821, 627, 497, 614>>,
                 TOTAL |-> <<971, 847, 819, 865, 812, 820, 911, 693, None, 883, 773, 702, 834>>],
             concrete |-> <<<<1038, 968, 1153>>, <<846, 576, 660>>, <<914, 692, 819>>>>,
             finishes |-> <<<<1138, 1001, 1031, 1039>>, <<522, 591, 592, 501>>, <<748, 743, 922, 712>>>>]
        ELSE IF k = "BIRMINGHAM_350-352" THEN
            [city_data |->
                [MAT |-> <<1024, 951, 851, 969, 939, 990, 1006, 1030, None, 1000, 960, 1002, 980>>,
                 INST |-> <<1059, 1028, 710, 628, 819, 685, 698, 680, None, 860, 639, 641, 707>>,
                 TOTAL |-> <<1059, 1004, 937, 722, 943, 886, 912, 979, None, 970, 870, 853, 892>>],
             concrete |-> <<<<1583, 968, 1084>>, <<683, 680, 741>>, <<752, 1175, 977>>>>,
             finishes |-> <<<<856, 782, 956, 895>>, <<675, 675, 696, 515>>, <<809, 693, 978, 715>>>>]
        ELSE
            [city_data |->
                [MAT |-> <<979, 908, 1146, 1075, 868, 899, 1018, 1086, None, 1000, 926, 907, 1008>>,
                 INST |-> <<1011, 1027, 1365, 1407, 1219, 1405, 1350, 1390, None, 1189, 1298, 1358, 1312>>,
                 TOTAL |-> <<1011, 1066, 1150, 1184, 1038, 1179, 1059, 1162, None, 1040, 1108, 1168, 1125>>],
             concrete |-> <<<<1239, 1012, 1162>>, <<1420, 1340, 1323>>, <<1342, 1086, 1067>>>>,
             finishes |-> <<<<958, 1006, 891, 985>>, <<1417, 1417, 1207, 1306>>, <<1340, 1319, 1101, 1179>>>>]]

\* the ABILENE/382 MAT row as a table row delivers it: the twelve numbers of
\* the row whose cell for division index 8 is empty
AbileneMatRow == <<971, 1001, 953, 1127, 977, 982, 1102, 880, 1004, 981, 1003, 962>>

\* real_pdf_extractor.py detected_cities (first entries), with
\* int(hashlib.md5(city_name.encode()).hexdigest()[:8], 16) % 10000 of each name
detected_cities ==
    << [name |-> "ANNISTON", zip |-> "362", seed |-> 7619],
       [name |-> "BIRMINGHAM", zip |-> "350-352", seed |-> 549],
       [name |-> "BUTLER", zip |-> "369", seed |-> 1912],
       [name |-> "EVERGREEN", zip |-> "364", seed |-> 8122] >>

----------------------------------------------------------------------------
(* Fallback generator.  random.seed(seed) fixes the stream of draws;       *)
(* Draw(seed, k) is draw number k of that stream, in hundredths of [0, 1). *)

Draw(seed, k) == (seed * 31 + k * 17 + 7) % 100

\* random.uniform(a, b) for draw u; a and b in thousandths
Uniform(a, b, u) == a + ((b - a) * u) \div 100

\* real_pdf_extractor.py _generate_realistic_data, the values of division i
FinalWorkingExtractor_generated(seed, i) ==
    LET base_mat == Uniform(90000, 110000, Draw(seed, 0)) \div 100     \* tenths
        base_inst == Uniform(70000, 120000, Draw(seed, 1)) \div 100
        mat_val == (base_mat * Uniform(850, 1150, Draw(seed, 2 + 3 * i))) \div 1000
        inst_val == (base_inst * Uniform(750, 1250, Draw(seed, 3 + 3 * i))) \div 1000
        total_val == (((mat_val + inst_val) \div 2) * Uniform(900, 1100, Draw(seed, 4 + 3 * i))) \div 1000
    IN  [MAT |-> mat_val, INST |-> inst_val, TOTAL |-> total_val]

FinalWorkingExtractor_generate_realistic_data(seed) ==
    [t \in DataTypeSet |-> [p \in 1..NumMain |-> FinalWorkingExtractor_generated(seed, p - 1)[t]]]

\* extract_all_cities.py _generate_realistic_city_data, the values of division i
CompleteRealExtractor_generated(seed, i) ==
    LET base_mat == Uniform(85000, 115000, Draw(seed, 0)) \div 100
        base_inst == Uniform(70000, 130000, Draw(seed, 1)) \div 100
        mat_val == (base_mat * Uniform(850, 1150, Draw(seed, 2 + 3 * i))) \div 1000
        inst_val == (base_inst * Uniform(800, 1200, Draw(seed, 3 + 3 * i))) \div 1000
        total_val == (((mat_val + inst_val) \div 2) * Uniform(900, 1100, Draw(seed, 4 + 3 * i))) \div 1000
    IN  [MAT |-> mat_val, INST |-> inst_val, TOTAL |-> total_val]

CompleteRealExtractor_generate_realistic_city_data(seed) ==
    [t \in DataTypeSet |-> [p \in 1..NumMain |-> CompleteRealExtractor_generated(seed, p - 1)[t]]]

----------------------------------------------------------------------------
(* Inputs of the assemblers: the city_data each class can hand to its        *)
(* assembler.  Extracted lists are generic: the number at position p of the  *)
(* row of type t is Base(t) + p.                                             *)

Base(t) == IF t = "MAT" THEN 900 ELSE IF t = "INST" THEN 600 ELSE 700

Nums(t, n) == [p \in 1..n |-> Base(t) + p]

\* lists of a city_data over the keys K, every length drawn from lens
CityDataOver(K, lens) == {[t \in K |-> Nums(t, l[t])] : l \in [K -> lens]}

\* third = len(numbers) // 3; MAT, INST, TOTAL are the three thirds in order
organize_numbers_into_data(numbers) ==
    LET third == Len(numbers) \div 3
    IN  [MAT |-> Slice(numbers, 0, third),
         INST |-> Slice(numbers, third, 2 * third),
         TOTAL |-> Slice(numbers, 2 * third, 3 * third)]

\* the numbers of a page in reading order
Flat(n) == [p \in 1..n |-> 100 + p]

\* lengths of a list cut by numbers[:13] after len(numbers) >= 10
KeptLens == MinRowValues..Min2(NumMain, MaxRowLen)

AsmArg(city_data) == [city_data |-> city_data, concrete |-> << >>, finishes |-> << >>]

\* _extract_city_from_table_rows: a key per row of >= 10 numbers, cut to 13,
\* _validate_city_data; and the sample_cities_data
FinalFixedConverter_inputs ==
    {AsmArg(cd) : cd \in UNION {CityDataOver(K, KeptLens) : K \in (SUBSET DataTypeSet) \ {{}}}}
    \cup {AsmArg([MAT |-> AbileneMatRow, INST |-> Nums("INST", NumMain), TOTAL |-> Nums("TOTAL", NumMain)])}
    \cup {AsmArg(FinalFixedConverter_sample_cities_data[k]) : k \in DOMAIN FinalFixedConverter_sample_cities_data}

\* _extract_numbers_from_table_area / _find_numbers_in_nearby_rows: three keys,
\* each [] or a row cut to 13; _extract_from_raw_text: equal thirds of >= 30
\* numbers; _generate_realistic_data
FinalWorkingExtractor_inputs ==
    {AsmArg(cd) : cd \in CityDataOver(DataTypeSet, {0} \cup KeptLens)}
    \cup {AsmArg([cd EXCEPT !["MAT"] = AbileneMatRow]) : cd \in CityDataOver(DataTypeSet, {NumMain})}
    \cup {AsmArg(organize_numbers_into_data(Flat(n))) : n \in (3 * MinRowValues)..(3 * MaxRowLen)}
    \cup {AsmArg(FinalWorkingExtractor_generate_realistic_data(detected_cities[c].seed)) :
              c \in 1..Len(detected_cities)}

\* _extract_from_text: all_numbers[start:start + 39] of >= 30 numbers, by thirds;
\* _generate_realistic_city_data, whose seed is hash(city_name) % 1000
CompleteRealExtractor_inputs ==
    {AsmArg(organize_numbers_into_data(Flat(n))) : n \in (3 * MinRowValues)..(3 * NumMain)}
    \cup {AsmArg(CompleteRealExtractor_generate_realistic_city_data(seed)) : seed \in 0..HashSeeds}

\* the three hardcoded cities
CorrectedFinalConverter_inputs ==
    {CorrectedFinalConverter_sample_arrays[k] : k \in DOMAIN CorrectedFinalConverter_sample_arrays}

\* city_inst_pattern needs a number after INST. and len(inst_numbers) >= 15;
\* the TOTAL line is absent or carries any count of numbers
PDFParser_inputs ==
    {AsmArg([INST |-> Nums("INST", li), TOTAL |-> Nums("TOTAL", lt)]) :
        li \in ParserMinInst..MaxRowLen, lt \in 0..MaxRowLen}

\* Method 1 needs 10 INST numbers, Method 2 (standalone INST. line) none
FinalConverter_inputs ==
    {AsmArg([INST |-> Nums("INST", li), TOTAL |-> Nums("TOTAL", lt)]) :
        li \in 0..MaxRowLen, lt \in 0..MaxRowLen}

\* _fallback_parse: len(numbers) >= 15
FinalConverterSimple_inputs ==
    {AsmArg([INST |-> Nums("INST", li)]) : li \in FallbackMinNumbers..MaxRowLen}

Assemblers ==
    {"FinalFixedConverter", "FinalWorkingExtractor", "CompleteRealExtractor",
     "CorrectedFinalConverter", "PDFParser", "FinalConverter", "FinalConverterSimple"}

AssemblerInputs(a) ==
    CASE a = "FinalFixedConverter" -> FinalFixedConverter_inputs
      [] a = "FinalWorkingExtractor" -> FinalWorkingExtractor_inputs
      [] a = "CompleteRealExtractor" -> CompleteRealExtractor_inputs
      [] a = "CorrectedFinalConverter" -> CorrectedFinalConverter_inputs
      [] a = "PDFParser" -> PDFParser_inputs
      [] a = "FinalConverter" -> FinalConverter_inputs
      [] OTHER -> FinalConverterSimple_inputs

\* the call of the assembler of class a on the argument arg
AssemblerCall(a, arg) ==
    CASE a = "FinalFixedConverter" ->
            Returned(FinalFixedConverter_structure_city_data(arg.city_data))
      [] a = "FinalWorkingExtractor" ->
            FinalWorkingExtractor_structure_city_data(arg.city_data)
      [] a = "CompleteRealExtractor" ->
            CompleteRealExtractor_create_structured_data(arg.city_data)
      [] a = "CorrectedFinalConverter" ->
            Returned(CorrectedFinalConverter_build_sample_city_data(arg))
      [] a = "PDFParser" ->
            Returned(PDFParser_build_city_data_simple(arg.city_data["INST"], arg.city_data["TOTAL"]))
      [] a = "FinalConverter" ->
            Returned(FinalConverter_build_city_data(arg.city_data["INST"], arg.city_data["TOTAL"]))
      [] OTHER ->
            Returned(FinalConverter_build_simple_city_data(arg.city_data["INST"]))

----------------------------------------------------------------------------
(* Page content as the PDF library hands it over.  A row is one table row,  *)
(* one group of text spans or one text line: the city name and ZIP it       *)
(* shows, the data type label (MAT. / INST. / TOTAL) and its cells; a cell   *)
(* is a number or None (empty).  The text of a row is its parts joined.     *)

Row(city, zip, zipcell, label, nums, y) ==
    [city |-> city, zip |-> zip, zipcell |-> zipcell, label |-> label, nums |-> nums, y |-> y]

\* the cities of the modelled pages: name, ZIP, the ZIP without punctuation
\* (re.sub(r'[^\w\s]', '', ...)), the length of each, and the excluded terms the
\* name contains
Cities ==
    { [name |-> "ABILENE", zip |-> "382", zip_clean |-> "382",
       name_len |-> 7, zip_len |-> 3, terms |-> {}],
      [name |-> "BIRMINGHAM", zip |-> "350-352", zip_clean |-> "350352",
       name_len |-> 10, zip_len |-> 7, terms |-> {}] }

CityOf(name) == CHOOSE c \in Cities : c.name = name

\* numbers per data row of a city block: MAT, INST, TOTAL (0: the row is absent);
\* gap: the MAT row has an empty cell at division index 8
Patterns ==
    { [MAT |-> 13, INST |-> 13, TOTAL |-> 13, gap |-> FALSE],
      [MAT |-> 9, INST |-> 9, TOTAL |-> 9, gap |-> FALSE],
      [MAT |-> 13, INST |-> 13, TOTAL |-> 13, gap |-> TRUE],
      [MAT |-> 13, INST |-> 10, TOTAL |-> 11, gap |-> FALSE],
      [MAT |-> 0, INST |-> 3, TOTAL |-> 0, gap |-> FALSE],
      [MAT |-> 0, INST |-> MaxRowLen - 1, TOTAL |-> 3, gap |-> FALSE],
      [MAT |-> MaxRowLen - 1, INST |-> MaxRowLen - 1, TOTAL |-> MaxRowLen - 1, gap |-> FALSE] }

\* vertical distance of two rows of a page, and of two spans of one row
RowPitch == 12
SpanJitter == 3

\* cells of a data row: n numbers, the rest of the row empty
Cells(t, n, v, gap) ==
    [p \in 1..MaxRowLen |->
        IF gap /\ t = "MAT"
        THEN (IF p <= 8 THEN AbileneMatRow[p]
              ELSE IF p = 9 \/ p > NumMain THEN None ELSE AbileneMatRow[p - 1])
        ELSE IF p <= n THEN Base(t) + 30 * v + p ELSE None]

EmptyCells == [p \in 1..MaxRowLen |-> None]

\* a city block in the layout "rows" (header row, then MAT., INST., TOTAL rows)
\* or "inline" (CITY ZIP INST. numbers, then the TOTAL line); hk places the ZIP:
\* "joined" with the name, "zipcell" in a cell of its own, "nozip" nowhere
BlockRows(b) ==
    LET c == CityOf(b.city)
        zip == IF b.hk = "joined" THEN c.zip ELSE ""
        zipcell == IF b.hk = "zipcell" THEN c.zip ELSE ""
        data(t) == IF b.pat[t] = 0 THEN << >>
                   ELSE << Row("", "", "", t, Cells(t, b.pat[t], b.v, b.pat.gap), 0) >>
    IN  IF b.lay = "rows"
        THEN << Row(c.name, zip, zipcell, "", EmptyCells, 0) >>
                 \o data("MAT") \o data("INST") \o data("TOTAL")
        ELSE << Row(c.name, zip, zipcell, "INST", Cells("INST", b.pat.INST, b.v, FALSE), 0) >>
                 \o data("TOTAL")

\* rows placed down the page, one RowPitch apart
Placed(rows) == [i \in 1..Len(rows) |-> [rows[i] EXCEPT !.y = 100 + RowPitch * i]]

RECURSIVE Concat(_)
Concat(seqs) == IF seqs = << >> THEN << >> ELSE Head(seqs) \o Concat(Tail(seqs))

\* a view of a page: the rows of a sequence of blocks
ViewOf(blocks) == Placed(Concat([i \in 1..Len(blocks) |-> BlockRows(blocks[i])]))

BlockSpecs(cities, hks, lays, pats, vs) ==
    [city : cities, hk : hks, lay : lays, pat : pats, v : vs]

\* the numbers of a row: re.findall(r'\d+\.\d+', ...) over its non-empty cells
RowNumbers(row) == SelectSeq(row.nums, LAMBDA x : x # None)

\* the ZIP the joined text of a row shows
TextZip(row) == IF row.zip # "" THEN row.zip ELSE row.zipcell

\* dict update: d[key] = value
Put(d, key, value) == (key :> value) @@ d

\* an update that keeps the entries d already has
Update_keep(d, other) == d @@ other

\* dict.update(other)
Update(d, other) == other @@ d

\* f"{city_name.replace(' ', '_')}_{zip_code}"; the modelled names hold no space
CityKey(name, zip) == name \o "_" \o zip

----------------------------------------------------------------------------
(* real_pdf_extractor.py: the extraction strategies of FinalWorkingExtractor *)

NoCityData == [MAT |-> << >>, INST |-> << >>, TOTAL |-> << >>]

\* _is_valid_city_name
FinalWorkingExtractor_is_valid_city_name(name) ==
    /\ name # ""
    /\ CityOf(name).name_len >= 3
    /\ CityOf(name).terms = {}

\* _extract_city_zip_from_cell on a table cell: "CITY ZIP" and nothing else
FinalWorkingExtractor_city_zip_cell(row) ==
    /\ row.city # "" /\ row.zip # "" /\ row.label = ""
    /\ FinalWorkingExtractor_is_valid_city_name(row.city)

\* _extract_city_zip_from_cell on the joined text of a row or on a line
FinalWorkingExtractor_city_zip_text(row) ==
    /\ row.city # "" /\ TextZip(row) # "" /\ row.label = "" /\ RowNumbers(row) = << >>
    /\ FinalWorkingExtractor_is_valid_city_name(row.city)

\* a row of >= 10 numbers goes to its data type, or to the first empty list
FinalWorkingExtractor_add_row(city_data, data_type, numbers) ==
    IF Len(numbers) < MinRowValues THEN city_data
    ELSE IF data_type # "" THEN [city_data EXCEPT ![data_type] = Prefix(numbers, NumMain)]
    ELSE IF city_data["MAT"] = << >> THEN [city_data EXCEPT !["MAT"] = Prefix(numbers, NumMain)]
    ELSE IF city_data["INST"] = << >> THEN [city_data EXCEPT !["INST"] = Prefix(numbers, NumMain)]
    ELSE IF city_data["TOTAL"] = << >> THEN [city_data EXCEPT !["TOTAL"] = Prefix(numbers, NumMain)]
    ELSE city_data

\* the rows r .. hi-1 (0-based) added in order
RECURSIVE FinalWorkingExtractor_scan_rows(_, _, _, _)
FinalWorkingExtractor_scan_rows(rows, r, hi, city_data) ==
    IF r >= hi THEN city_data
    ELSE FinalWorkingExtractor_scan_rows(rows, r + 1, hi,
             FinalWorkingExtractor_add_row(city_data, rows[r + 1].label, RowNumbers(rows[r + 1])))

\* _extract_numbers_from_table_area: rows row_idx-2 .. row_idx+4
FinalWorkingExtractor_extract_numbers_from_table_area(table_data, row_idx) ==
    FinalWorkingExtractor_scan_rows(table_data,
        IF row_idx - 2 > 0 THEN row_idx - 2 ELSE 0,
        Min2(Len(table_data), row_idx + 5), NoCityData)

\* _find_numbers_in_nearby_rows: rows city_row_idx+1 .. city_row_idx+9
FinalWorkingExtractor_find_numbers_in_nearby_rows(rows, city_row_idx) ==
    FinalWorkingExtractor_scan_rows(rows, city_row_idx + 1,
        Min2(Len(rows), city_row_idx + 10), NoCityData)

\* _process_table_data, from row row_idx on; an exception of the assembler ends it
RECURSIVE FinalWorkingExtractor_process_table_data(_, _, _)
FinalWorkingExtractor_process_table_data(table_data, row_idx, cities) ==
    IF row_idx >= Len(table_data) THEN Returned(cities)
    ELSE LET row == table_data[row_idx + 1]
             structured == FinalWorkingExtractor_structure_city_data(
                 FinalWorkingExtractor_extract_numbers_from_table_area(table_data, row_idx))
         IN  IF 1 + Len(row.nums) < 5 \/ ~FinalWorkingExtractor_city_zip_cell(row)
             THEN FinalWorkingExtractor_process_table_data(table_data, row_idx + 1, cities)
             ELSE IF structured.exc # "none" THEN Raised(structured.exc)
             ELSE FinalWorkingExtractor_process_table_data(table_data, row_idx + 1,
                      IF DOMAIN structured.val # {}
                      THEN Put(cities, CityKey(row.city, row.zip), structured.val)
                      ELSE cities)

\* _extract_from_tables, from table k on: an exception returns the cities so far
RECURSIVE FinalWorkingExtractor_extract_from_tables(_, _, _)
FinalWorkingExtractor_extract_from_tables(tables, k, cities) ==
    IF k > Len(tables) THEN cities
    ELSE LET table_cities == FinalWorkingExtractor_process_table_data(tables[k], 0, EmptyMap)
         IN  IF Len(tables[k]) <= 3
             THEN FinalWorkingExtractor_extract_from_tables(tables, k + 1, cities)
             ELSE IF table_cities.exc # "none" THEN cities
             ELSE FinalWorkingExtractor_extract_from_tables(tables, k + 1,
                      Update(cities, table_cities.val))

\* row_text = " ".join(elem["text"] for elem in row): the spans of a row joined
RECURSIVE JoinSpans(_)
JoinSpans(spans) ==
    IF Len(spans) = 1 THEN spans[1]
    ELSE LET a == spans[1]
             b == JoinSpans(Tail(spans))
         IN  Row(IF a.city # "" THEN a.city ELSE b.city,
                 IF a.zip # "" THEN a.zip ELSE b.zip,
                 IF a.zipcell # "" THEN a.zipcell ELSE b.zipcell,
                 IF a.label # "" THEN a.label ELSE b.label,
                 a.nums \o b.nums, a.y)

\* abs(element["y"] - current_y)
Abs(x) == IF x < 0 THEN -x ELSE x

\* pixels within which two spans are one row
RowTolerance == 5

\* a grouping that compares each element with the one before it
RECURSIVE FinalWorkingExtractor_group_adjacent(_, _, _, _, _)
FinalWorkingExtractor_group_adjacent(elements, k, current_row, current_y, rows) ==
    IF k > Len(elements) THEN Append(rows, current_row)
    ELSE IF Abs(elements[k].y - current_y) <= RowTolerance
         THEN FinalWorkingExtractor_group_adjacent(elements, k + 1,
                  Append(current_row, elements[k]), elements[k].y, rows)
         ELSE FinalWorkingExtractor_group_adjacent(elements, k + 1, << elements[k] >>,
                                                   elements[k].y, Append(rows, current_row))

\* _group_elements_by_rows, from element k on
RECURSIVE FinalWorkingExtractor_group(_, _, _, _, _)
FinalWorkingExtractor_group(elements, k, current_row, current_y, rows) ==
    IF k > Len(elements) THEN Append(rows, current_row)
    ELSE IF Abs(elements[k].y - current_y) <= RowTolerance
         THEN FinalWorkingExtractor_group(elements, k + 1, Append(current_row, elements[k]),
                                          current_y, rows)
         ELSE FinalWorkingExtractor_group(elements, k + 1, << elements[k] >>,
                                          elements[k].y, Append(rows, current_row))

FinalWorkingExtractor_group_elements_by_rows(elements) ==
    IF elements = << >> THEN << >>
    ELSE FinalWorkingExtractor_group(elements, 2, << elements[1] >>, elements[1].y, << >>)

\* _process_coordinate_rows over the joined rows, from row row_idx on
RECURSIVE FinalWorkingExtractor_process_coordinate_rows(_, _, _)
FinalWorkingExtractor_process_coordinate_rows(rows, row_idx, cities) ==
    IF row_idx >= Len(rows) THEN Returned(cities)
    ELSE LET row == rows[row_idx + 1]
             structured == FinalWorkingExtractor_structure_city_data(
                 FinalWorkingExtractor_find_numbers_in_nearby_rows(rows, row_idx))
         IN  IF ~FinalWorkingExtractor_city_zip_text(row)
             THEN FinalWorkingExtractor_process_coordinate_rows(rows, row_idx + 1, cities)
             ELSE IF structured.exc # "none" THEN Raised(structured.exc)
             ELSE FinalWorkingExtractor_process_coordinate_rows(rows, row_idx + 1,
                      IF DOMAIN structured.val # {}
                      THEN Put(cities, CityKey(row.city, TextZip(row)), structured.val)
                      ELSE cities)

\* _extract_from_coordinates: an exception leaves cities = {}
FinalWorkingExtractor_extract_from_coordinates(elements) ==
    LET groups == FinalWorkingExtractor_group_elements_by_rows(elements)
        cities == FinalWorkingExtractor_process_coordinate_rows(
                      [i \in 1..Len(groups) |-> JoinSpans(groups[i])], 0, EmptyMap)
    IN  IF cities.exc # "none" THEN EmptyMap ELSE cities.val

\* the numbers of lines j .. hi-1 (0-based), in order
RECURSIVE NumbersOfLines(_, _, _)
NumbersOfLines(lines, j, hi) ==
    IF j >= hi THEN << >>
    ELSE RowNumbers(lines[j + 1]) \o NumbersOfLines(lines, j + 1, hi)

\* lines after a city line searched for numbers: range(i + 1, min(i + 20, len(lines)))
LookAhead == 20

\* len(numbers) >= 30
MinTextNumbers == 30

\* _extract_from_raw_text, from line i on
RECURSIVE FinalWorkingExtractor_extract_from_raw_text(_, _, _)
FinalWorkingExtractor_extract_from_raw_text(lines, i, cities) ==
    IF i >= Len(lines) THEN cities
    ELSE LET numbers == NumbersOfLines(lines, i + 1, Min2(i + LookAhead, Len(lines)))
             structured == FinalWorkingExtractor_structure_city_data(
                               organize_numbers_into_data(numbers))
         IN  IF ~FinalWorkingExtractor_city_zip_text(lines[i + 1]) \/ Len(numbers) < MinTextNumbers
             THEN FinalWorkingExtractor_extract_from_raw_text(lines, i + 1, cities)
             ELSE IF structured.exc # "none" THEN cities
             ELSE FinalWorkingExtractor_extract_from_raw_text(lines, i + 1,
                      IF DOMAIN structured.val # {}
                      THEN Put(cities, CityKey(lines[i + 1].city, TextZip(lines[i + 1])),
                               structured.val)
                      ELSE cities)

----------------------------------------------------------------------------
(* complete_converter.py: the table strategy of FinalFixedConverter *)

\* re.sub(r'[^\w\s]', '', text).strip().upper().replace(' ', '_') of "NAME ZIP"
CleanNameZip(name, zip) ==
    IF zip = "" THEN name ELSE name \o "_" \o CityOf(name).zip_clean

\* _looks_like_city(first_col): a first cell that shows a name and no data type
FinalFixedConverter_looks_like_city(row) ==
    /\ row.city # "" /\ row.label = ""
    /\ CityOf(row.city).name_len >= 3
    /\ CityOf(row.city).terms = {}

\* _extract_city_from_table_rows: the rows start_row .. start_row+3, from offset on
RECURSIVE FinalFixedConverter_extract_city_from_table_rows(_, _, _, _)
FinalFixedConverter_extract_city_from_table_rows(table_data, start_row, offset, city_data) ==
    IF offset >= Min2(4, Len(table_data) - start_row) THEN city_data
    ELSE LET row == table_data[start_row + offset + 1]
             numbers == RowNumbers(row)
         IN  FinalFixedConverter_extract_city_from_table_rows(table_data, start_row, offset + 1,
                 IF row.city = "" /\ row.label # "" /\ Len(numbers) >= MinRowValues
                 THEN Put(city_data, row.label, Prefix(numbers, NumMain))
                 ELSE city_data)

\* _validate_city_data
FinalFixedConverter_validate_city_data(data) ==
    \E t \in DOMAIN data : Len(data[t]) >= MinRowValues

\* _make_city_key(first_col, _find_zip_in_row(row), page_num)
FinalFixedConverter_make_city_key(row, page_num) ==
    IF row.zipcell # "" THEN CleanNameZip(row.city, row.zip) \o "_" \o row.zipcell
    ELSE CleanNameZip(row.city, row.zip) \o "_P" \o ToString(page_num)

\* _extract_from_table, from row row_idx on
RECURSIVE FinalFixedConverter_extract_from_table(_, _, _, _)
FinalFixedConverter_extract_from_table(table_data, page_num, row_idx, cities) ==
    IF Len(table_data) < 3 \/ row_idx >= Len(table_data) THEN cities
    ELSE LET row == table_data[row_idx + 1]
             city_data == FinalFixedConverter_extract_city_from_table_rows(
                              table_data, row_idx, 0, EmptyMap)
             structured == FinalFixedConverter_structure_city_data(city_data)
             found == /\ 1 + Len(row.nums) >= 5
                      /\ FinalFixedConverter_looks_like_city(row)
                      /\ DOMAIN city_data # {}
                      /\ FinalFixedConverter_validate_city_data(city_data)
                      /\ DOMAIN structured # {}
         IN  FinalFixedConverter_extract_from_table(table_data, page_num, row_idx + 1,
                 IF found
                 THEN Put(cities, FinalFixedConverter_make_city_key(row, page_num), structured)
                 ELSE cities)

\* _extract_real_data_from_page: every table, then the text blocks (a stub
\* that returns {})
RECURSIVE FinalFixedConverter_extract_real_data_from_page(_, _, _, _)
FinalFixedConverter_extract_real_data_from_page(tables, page_num, k, cities) ==
    IF k > Len(tables) THEN cities
    ELSE FinalFixedConverter_extract_real_data_from_page(tables, page_num, k + 1,
             Update(cities, FinalFixedConverter_extract_from_table(tables[k], page_num, 0, EmptyMap)))

----------------------------------------------------------------------------
(* extract_all_cities.py: the strategies of CompleteRealExtractor *)

\* _is_city_name(line): 70% letters or spaces, no technical term
CompleteRealExtractor_is_city_name(row) ==
    LET c == CityOf(row.city)
        alpha == IF TextZip(row) = "" THEN c.name_len ELSE c.name_len + 1
        total == IF TextZip(row) = "" THEN c.name_len ELSE c.name_len + 1 + c.zip_len
    IN  /\ row.city # "" /\ row.label = "" /\ RowNumbers(row) = << >>
        /\ total >= 3
        /\ 10 * alpha >= 7 * total
        /\ c.terms = {}

\* _create_city_key(line, "", page_num)
CompleteRealExtractor_create_city_key(row, page_num) ==
    CleanNameZip(row.city, TextZip(row)) \o "_PAGE" \o ToString(page_num)

\* numbers handed to one city: all_numbers[start_idx:start_idx + 39]
NumbersPerCity == 39

\* _extract_from_text, the loop over potential_cities from city i on
RECURSIVE CompleteRealExtractor_cities_from_text(_, _, _, _, _)
CompleteRealExtractor_cities_from_text(potential_cities, all_numbers, page_num, i, cities) ==
    IF i >= Len(potential_cities) THEN Returned(cities)
    ELSE LET numbers_per_city == Len(all_numbers) \div Len(potential_cities)
             start_idx == i * numbers_per_city
             city_numbers == Slice(all_numbers, start_idx, start_idx + NumbersPerCity)
             structured == CompleteRealExtractor_create_structured_data(
                               organize_numbers_into_data(city_numbers))
         IN  IF Len(city_numbers) < MinTextNumbers
             THEN CompleteRealExtractor_cities_from_text(
                      potential_cities, all_numbers, page_num, i + 1, cities)
             ELSE IF structured.exc # "none" THEN Raised(structured.exc)
             ELSE CompleteRealExtractor_cities_from_text(
                      potential_cities, all_numbers, page_num, i + 1,
                      IF DOMAIN structured.val # {}
                      THEN Put(cities,
                               CompleteRealExtractor_create_city_key(potential_cities[i + 1], page_num),
                               structured.val)
                      ELSE cities)

\* _extract_from_text
CompleteRealExtractor_extract_from_text(lines, page_num) ==
    LET potential_cities == SelectSeq(lines, CompleteRealExtractor_is_city_name)
        all_numbers == NumbersOfLines(lines, 0, Len(lines))
    IN  IF potential_cities # << >> /\ Len(all_numbers) >= Len(potential_cities) * MinTextNumbers
        THEN CompleteRealExtractor_cities_from_text(potential_cities, all_numbers, page_num, 0, EmptyMap)
        ELSE Returned(EmptyMap)

\* _process_table_for_cities: _extract_city_data_from_table is a stub that
\* returns {}, so no city is ever added
CompleteRealExtractor_process_table_for_cities(table_data, page_num) == EmptyMap

\* _extract_from_coordinates: _find_cities_in_elements is a stub that returns {}
CompleteRealExtractor_extract_from_coordinates(elements, page_num) == EmptyMap

----------------------------------------------------------------------------
(* parser.py: the text strategy of PDFParser *)

\* city_inst_pattern: CITY ZIP INST. and at least one number
PDFParser_city_inst_match(row) ==
    row.city # "" /\ TextZip(row) # "" /\ row.label = "INST" /\ RowNumbers(row) # << >>

\* total_pattern: TOTAL and at least one number
PDFParser_total_match(row) ==
    row.city = "" /\ row.label = "TOTAL" /\ RowNumbers(row) # << >>

\* _process_page_text_simple, the while loop from line i on
RECURSIVE PDFParser_process_page_text_simple(_, _, _)
PDFParser_process_page_text_simple(lines, i, page_data) ==
    IF i >= Len(lines) THEN page_data
    ELSE IF ~PDFParser_city_inst_match(lines[i + 1])
         THEN PDFParser_process_page_text_simple(lines, i + 1, page_data)
         ELSE LET line == lines[i + 1]
                  inst_numbers == RowNumbers(line)
                  has_total == i + 1 < Len(lines) /\ PDFParser_total_match(lines[i + 2])
                  total_numbers == IF has_total THEN RowNumbers(lines[i + 2]) ELSE << >>
                  city_data == PDFParser_build_city_data_simple(inst_numbers, total_numbers)
              IN  PDFParser_process_page_text_simple(lines,
                      IF has_total THEN i + 2 ELSE i + 1,
                      IF Len(inst_numbers) >= ParserMinInst /\ DOMAIN city_data # {}
                      THEN Put(page_data, CityKey(line.city, TextZip(line)), city_data)
                      ELSE page_data)

----------------------------------------------------------------------------
(* final_converter.py: the text strategy and the re-parse of MasterFormatConverter *)

\* _parse_city_inst_line returns a record: CITY ZIP INST. with >= 10 numbers
FinalConverter_city_inst_line(lines, i) ==
    /\ lines[i + 1].city # "" /\ lines[i + 1].label = "INST"
    /\ TextZip(lines[i + 1]) # ""
    /\ Len(RowNumbers(lines[i + 1])) >= MinRowValues

\* next_line.startswith("TOTAL")
FinalConverter_total_next(lines, i) ==
    i + 1 < Len(lines) /\ lines[i + 2].city = "" /\ lines[i + 2].label = "TOTAL"

\* _find_city_in_previous_lines: the first of the three lines before i that is "CITY ZIP"
FinalConverter_is_city_line(row) ==
    row.city # "" /\ TextZip(row) # "" /\ row.label = "" /\ RowNumbers(row) = << >>

FinalConverter_previous_city_lines(lines, i) ==
    {k \in (IF i - 3 > 0 THEN i - 3 ELSE 0)..(i - 1) : FinalConverter_is_city_line(lines[k + 1])}

\* _process_page_text, the while loop from line i on
RECURSIVE FinalConverter_process_page_text(_, _, _)
FinalConverter_process_page_text(lines, i, cities) ==
    IF i >= Len(lines) THEN cities
    ELSE LET line == lines[i + 1]
             total_numbers == IF FinalConverter_total_next(lines, i)
                              THEN RowNumbers(lines[i + 2]) ELSE << >>
             city_data == FinalConverter_build_city_data(RowNumbers(line), total_numbers)
             previous == FinalConverter_previous_city_lines(lines, i)
             city_line == lines[SetMin(previous) + 1]
         IN  IF FinalConverter_city_inst_line(lines, i) /\ DOMAIN city_data # {}
             THEN \* Method 1
                  FinalConverter_process_page_text(lines,
                      IF FinalConverter_total_next(lines, i) THEN i + 2 ELSE i + 1,
                      Put(cities, CityKey(line.city, TextZip(line)), city_data))
             ELSE IF /\ line.city = "" /\ line.label = "INST"
                     /\ RowNumbers(line) # << >> /\ i > 0
                     /\ previous # {}
                     /\ DOMAIN city_data # {}
             THEN \* Method 2: a standalone INST. line below a city line
                  FinalConverter_process_page_text(lines, i + 1,
                      Put(cities, CityKey(city_line.city, TextZip(city_line)), city_data))
             ELSE FinalConverter_process_page_text(lines, i + 1, cities)

\* _fallback_parse over the lines of one page, from line i on: CITY INST. with >= 15 numbers
RECURSIVE FinalConverter_fallback_lines(_, _, _)
FinalConverter_fallback_lines(lines, i, cities) ==
    IF i >= Len(lines) THEN cities
    ELSE LET line == lines[i + 1]
             numbers == RowNumbers(line)
         IN  FinalConverter_fallback_lines(lines, i + 1,
                 IF /\ line.city # "" /\ line.label = "INST"
                    /\ Len(numbers) >= FallbackMinNumbers
                 THEN Put(cities, CleanNameZip(line.city, TextZip(line)),
                          FinalConverter_build_simple_city_data(numbers))
                 ELSE cities)

\* _fallback_parse over the pages of the document, from page k on
RECURSIVE FinalConverter_fallback_parse(_, _, _)
FinalConverter_fallback_parse(pages, k, cities) ==
    IF k > Len(pages) THEN cities
    ELSE FinalConverter_fallback_parse(pages, k + 1,
             FinalConverter_fallback_lines(pages[k], 0, cities))

----------------------------------------------------------------------------
(* Specification of the assemblers: one assembler, one argument, one call *)

AsmIdle == asm = "none" /\ asm_in = << >> /\ asm_out = Returned(EmptyMap) /\ asm_pc = "idle"

StratIdle == strat = "none" /\ strat_in = << >> /\ strat_out = Returned(EmptyMap) /\ strat_pc = "idle"

PipeIdle ==
    /\ conv = "none" /\ pc = "idle" /\ opened = FALSE
    /\ num_pages = 0 /\ page_idx = 0 /\ cur_page = << >>
    /\ page_cities = EmptyMap /\ all_cities = EmptyMap
    /\ tried = << >> /\ page_log = << >> /\ doc_pages = << >>
    /\ fallback = "none" /\ result = Returned(EmptyMap)

GenIdle ==
    /\ gen = "none" /\ rng = [seed |-> 0, pos |-> 0]
    /\ str_hash = << >> /\ gen_log = << >>

\* ErrorHandler.__init__
ErrorHandler_init(max_errors) ==
    [errors |-> << >>, warnings |-> << >>, max_errors |-> max_errors]

ValIdle ==
    /\ val_data = EmptyMap /\ strict_mode = TRUE
    /\ error_handler = ErrorHandler_init(DefaultMaxErrors) /\ val_log = << >>

RowIdle ==
    /\ row_line = << >> /\ row_first = << >> /\ row_text = << >>
    /\ row_second = << >> /\ row_pc = "idle"

TxtIdle == txt_in = << >> /\ txt_out = << >> /\ txt_pc = "idle"

MainIdle ==
    /\ main_pc = "idle" /\ main_env = << >> /\ main_files = << >>
    /\ main_handler = ErrorHandler_init(DefaultMaxErrors) /\ main_out = Returned(EmptyMap)

AuxIdle == GenIdle /\ ValIdle /\ RowIdle /\ TxtIdle /\ MainIdle

InitAsm ==
    /\ asm \in Assemblers
    /\ asm_in \in AssemblerInputs(asm)
    /\ asm_out = Returned(EmptyMap)
    /\ asm_pc = "ready"
    /\ StratIdle
    /\ PipeIdle
    /\ AuxIdle

Assemble ==
    /\ asm_pc = "ready"
    /\ asm_out' = AssemblerCall(asm, asm_in)
    /\ asm_pc' = "done"
    /\ UNCHANGED <<asm, asm_in>>
    /\ UNCHANGED <<strat_vars, pipe_vars, aux_vars>>

NextAsm == Assemble

SpecAsm == InitAsm /\ [][NextAsm]_vars

----------------------------------------------------------------------------
(* Specification of the strategies: one strategy, one page, one call *)

Strategies ==
    {"FinalWorkingExtractor.tables", "FinalWorkingExtractor.coordinates",
     "FinalWorkingExtractor.raw_text", "FinalFixedConverter.table",
     "CompleteRealExtractor.text", "PDFParser.text", "FinalConverter.text"}

CityNames == {c.name : c \in Cities}

\* the first block of a page, and the block that may follow it
FirstBlocks == BlockSpecs(CityNames, {"joined", "zipcell", "nozip"}, {"rows", "inline"}, Patterns, {0})

NextBlocks ==
    BlockSpecs(CityNames, {"joined"}, {"rows", "inline"},
               {pt \in Patterns : ~pt.gap /\ pt.MAT = pt.INST /\ pt.MAT <= NumMain}, {0})

StratBlocks ==
    {<< >>} \cup {<< b >> : b \in FirstBlocks} \cup {<< b, n >> : b \in FirstBlocks, n \in NextBlocks}

\* a row as two spans: the name and label, then the ZIP and the cells a little lower
RowSpans(row) ==
    << [row EXCEPT !.zip = "", !.zipcell = "", !.nums = << >>],
       Row("", row.zip, row.zipcell, "", row.nums, row.y + SpanJitter) >>

SplitSpans(rows) == Concat([i \in 1..Len(rows) |-> RowSpans(rows[i])])

\* what the library returns for a page: shape "one" is one table of all rows and
\* one span per row, shape "each" a table per block and two spans per row
TablesOf(page) ==
    IF page.shape = "one"
    THEN (IF page.blocks = << >> THEN << >> ELSE << ViewOf(page.blocks) >>)
    ELSE [i \in 1..Len(page.blocks) |-> ViewOf(<< page.blocks[i] >>)]

ElementsOf(page) ==
    IF page.shape = "one" THEN ViewOf(page.blocks) ELSE SplitSpans(ViewOf(page.blocks))

LinesOf(page) == ViewOf(page.blocks)

Shapes(st) ==
    IF st \in {"FinalWorkingExtractor.tables", "FinalWorkingExtractor.coordinates",
               "FinalFixedConverter.table"}
    THEN {"one", "each"} ELSE {"one"}

StrategyInputs(st) ==
    {[blocks |-> bs, shape |-> sh, page_num |-> 1] : bs \in StratBlocks, sh \in Shapes(st)}

\* the call of strategy st on a page
StrategyCall(st, page) ==
    CASE st = "FinalWorkingExtractor.tables" ->
            Returned(FinalWorkingExtractor_extract_from_tables(TablesOf(page), 1, EmptyMap))
      [] st = "FinalWorkingExtractor.coordinates" ->
            Returned(FinalWorkingExtractor_extract_from_coordinates(ElementsOf(page)))
      [] st = "FinalWorkingExtractor.raw_text" ->
            Returned(FinalWorkingExtractor_extract_from_raw_text(LinesOf(page), 0, EmptyMap))
      [] st = "FinalFixedConverter.table" ->
            Returned(FinalFixedConverter_extract_real_data_from_page(
                         TablesOf(page), page.page_num, 1, EmptyMap))
      [] st = "CompleteRealExtractor.text" ->
            CompleteRealExtractor_extract_from_text(LinesOf(page), page.page_num)
      [] st = "PDFParser.text" ->
            Returned(PDFParser_process_page_text_simple(LinesOf(page), 0, EmptyMap))
      [] OTHER ->
            Returned(FinalConverter_process_page_text(LinesOf(page), 0, EmptyMap))

InitStrat ==
    /\ strat \in Strategies
    /\ strat_in \in StrategyInputs(strat)
    /\ strat_out = Returned(EmptyMap)
    /\ strat_pc = "ready"
    /\ AsmIdle
    /\ PipeIdle
    /\ AuxIdle

RunStrategy ==
    /\ strat_pc = "ready"
    /\ strat_out' = StrategyCall(strat, strat_in)
    /\ strat_pc' = "done"
    /\ UNCHANGED <<strat, strat_in>>
    /\ UNCHANGED <<asm_vars, pipe_vars, aux_vars>>

NextStrat == RunStrategy

SpecStrat == InitStrat /\ [][NextStrat]_vars

----------------------------------------------------------------------------
(* The converter pipelines: one run of a converter over a document, page by *)
(* page.  The page content and the failures of the PDF library are inputs.  *)

Converters ==
    {"FinalWorkingExtractor", "FinalFixedConverter", "CompleteRealExtractor",
     "CorrectedFinalConverter", "PDFParser", "FinalConverter"}

\* the city blocks the pages of a document show
PageBlocks ==
    BlockSpecs({"ABILENE"}, {"joined", "nozip"}, {"rows", "inline"},
               {pt \in Patterns : pt.MAT = MaxRowLen - 1}, {0, 1})
    \cup BlockSpecs({"ABILENE"}, {"zipcell"}, {"rows"},
                    {pt \in Patterns : pt.INST = 10}, {0, 1})
    \cup BlockSpecs({"BIRMINGHAM"}, {"joined"}, {"rows"},
                    {pt \in Patterns : pt.MAT = 9}, {0})

\* the content of a page: nothing, or one city block
PageContents == {<< >>} \cup {<< b >> : b \in PageBlocks}

PageOf(blocks, n) == [blocks |-> blocks, shape |-> "one", page_num |-> n]

\* real_pdf_extractor.py _create_comprehensive_dataset_from_names
FinalWorkingExtractor_dataset_empty == Returned(EmptyMap)

FinalWorkingExtractor_create_comprehensive_dataset_from_names ==
    LET names == Prefix(detected_cities, CatalogSize)
        structured(c) == FinalWorkingExtractor_structure_city_data(
                             FinalWorkingExtractor_generate_realistic_data(names[c].seed))
        kept == {c \in 1..Len(names) : DOMAIN structured(c).val # {}}
        KeyIndex(k) == CHOOSE c \in kept : CityKey(names[c].name, names[c].zip) = k
    IN  IF \E c \in 1..Len(names) : structured(c).exc # "none"
        THEN Raised((structured(CHOOSE c \in 1..Len(names) : structured(c).exc # "none")).exc)
        ELSE Returned([k \in {CityKey(names[c].name, names[c].zip) : c \in kept} |->
                          structured(KeyIndex(k)).val])

\* complete_converter.py _create_proper_sample_data
FinalFixedConverter_create_proper_sample_data ==
    LET structured(k) == FinalFixedConverter_structure_city_data(
                             FinalFixedConverter_sample_cities_data[k])
    IN  [k \in {s \in DOMAIN FinalFixedConverter_sample_cities_data : DOMAIN structured(s) # {}} |->
            structured(k)]

\* complete_converter.py _clean_structure
FinalFixedConverter_clean_structure(cities) ==
    [k \in {c \in DOMAIN cities : DOMAIN FinalFixedConverter_clean_city(cities[c]) # {}} |->
        FinalFixedConverter_clean_city(cities[k])]

\* extract_all_cities.py _create_comprehensive_sample; seeds[c] is
\* hash(city_name) % 1000 of city c in this process
CompleteRealExtractor_create_comprehensive_sample(seeds) ==
    LET us_cities == Prefix(detected_cities, CatalogSize)
        structured(c) == CompleteRealExtractor_create_structured_data(
                             CompleteRealExtractor_generate_realistic_city_data(seeds[c]))
        kept == {c \in 1..Len(us_cities) : DOMAIN structured(c).val # {}}
        KeyIndex(k) == CHOOSE c \in kept : (us_cities[c].name \o "_" \o us_cities[c].zip) = k
    IN  IF \E c \in 1..Len(us_cities) : structured(c).exc # "none"
        THEN Raised((structured(CHOOSE c \in 1..Len(us_cities) : structured(c).exc # "none")).exc)
        ELSE Returned([k \in {us_cities[c].name \o "_" \o us_cities[c].zip : c \in kept} |->
                          structured(KeyIndex(k)).val])

\* corrected_final_converter.py _create_corrected_sample_data
CorrectedFinalConverter_create_corrected_sample_data ==
    [k \in DOMAIN CorrectedFinalConverter_sample_arrays |->
        CorrectedFinalConverter_build_sample_city_data(CorrectedFinalConverter_sample_arrays[k])]

\* validator.py _validate_division_data: a dictionary with a 'division' string
JSONValidator_validate_division_data(division_data) == "division" \in DOMAIN division_data

\* validator.py _validate_city_data: valid_divisions > 0
JSONValidator_validate_city_data(city_data) ==
    \E code \in DOMAIN city_data : JSONValidator_validate_division_data(city_data[code])

\* validator.py validate_output in strict mode
JSONValidator_validate_output(data) ==
    /\ DOMAIN data # {}
    /\ \A city_key \in DOMAIN data : JSONValidator_validate_city_data(data[city_key])

\* extract_all_cities.py _extract_cities_from_page, Method 1: the loop over the tables
RECURSIVE CompleteRealExtractor_extract_from_tables(_, _, _, _)
CompleteRealExtractor_extract_from_tables(tables, page_num, k, cities) ==
    IF k > Len(tables) THEN cities
    ELSE CompleteRealExtractor_extract_from_tables(tables, page_num, k + 1,
             Update(cities, CompleteRealExtractor_process_table_for_cities(tables[k], page_num)))

\* complete_converter.py _extract_from_text_blocks: a placeholder that returns {}
FinalFixedConverter_extract_from_text_blocks == EmptyMap

\* the first strategy a converter applies to a page
FirstStep(c) == IF c \in {"PDFParser", "FinalConverter"} THEN "text" ELSE "table"

Init ==
    /\ conv \in Converters
    /\ pc = "start"
    /\ opened = FALSE
    /\ num_pages \in 0..MaxPages
    /\ page_idx = 0
    /\ cur_page = << >>
    /\ page_cities = EmptyMap
    /\ all_cities = EmptyMap
    /\ tried = << >>
    /\ page_log = << >>
    /\ doc_pages = << >>
    /\ fallback = "none"
    /\ result = Returned(EmptyMap)
    /\ AsmIdle
    /\ StratIdle
    /\ AuxIdle

\* the run ends with the exception e
Fail(e) ==
    /\ pc' = "done"
    /\ result' = Raised(e)

\* a strategy has returned r on the current page; next is the step that follows
Stepped(name, r, next) ==
    /\ tried' = Append(tried, [strategy |-> name, cities |-> r])
    /\ page_cities' = r
    /\ pc' = next
    /\ UNCHANGED <<conv, opened, num_pages, page_idx, cur_page, all_cities, page_log,
                   doc_pages, fallback, result>>
    /\ UNCHANGED <<asm_vars, strat_vars, aux_vars>>

\* fitz.open(pdf_path), with the existence checks that precede it
OpenDocument ==
    /\ pc = "start"
    /\ conv # "CorrectedFinalConverter"
    /\ \E ok \in BOOLEAN :
          IF ok
          THEN /\ opened' = TRUE
               /\ pc' = "pages"
               /\ UNCHANGED result
          ELSE /\ opened' = FALSE
               /\ pc' = "done"
               /\ result' = IF conv \in {"FinalWorkingExtractor", "CompleteRealExtractor"}
                            THEN Returned(EmptyMap) ELSE Raised("OpenError")
    /\ UNCHANGED <<conv, num_pages, page_idx, cur_page, page_cities, all_cities, tried,
                   page_log, doc_pages, fallback>>
    /\ UNCHANGED <<asm_vars, strat_vars, aux_vars>>

\* corrected_final_converter.py convert_pdf_to_json: the document is never opened
CorrectedConvert ==
    /\ pc = "start"
    /\ conv = "CorrectedFinalConverter"
    /\ all_cities' = CorrectedFinalConverter_create_corrected_sample_data
    /\ fallback' = "generator"
    /\ result' = Returned(all_cities')
    /\ pc' = "done"
    /\ UNCHANGED <<conv, opened, num_pages, page_idx, cur_page, page_cities, tried,
                   page_log, doc_pages>>
    /\ UNCHANGED <<asm_vars, strat_vars, aux_vars>>

\* page = doc[page_num]: the next page of the document, with its content
StartPage ==
    /\ pc = "pages"
    /\ page_idx < num_pages
    /\ \E blocks \in PageContents :
          /\ cur_page' = PageOf(blocks, page_idx + 1)
          /\ doc_pages' = Append(doc_pages, ViewOf(blocks))
    /\ tried' = << >>
    /\ page_cities' = EmptyMap
    /\ pc' = FirstStep(conv)
    /\ UNCHANGED <<conv, opened, num_pages, page_idx, all_cities, page_log, fallback, result>>
    /\ UNCHANGED <<asm_vars, strat_vars, aux_vars>>

\* real_pdf_extractor.py extract_working_data: doc[page_num] raises, the loop continues
SkipPage ==
    /\ pc = "pages"
    /\ page_idx < num_pages
    /\ conv = "FinalWorkingExtractor"
    /\ page_idx' = page_idx + 1
    /\ page_log' = Append(page_log, EmptyMap)
    /\ doc_pages' = Append(doc_pages, << >>)
    /\ UNCHANGED <<conv, pc, opened, num_pages, cur_page, page_cities, all_cities, tried,
                   fallback, result>>
    /\ UNCHANGED <<asm_vars, strat_vars, aux_vars>>

\* the table strategy of the three class converters on the current page
TableStep ==
    /\ pc = "table"
    /\ \E raises \in BOOLEAN :
          CASE conv = "FinalWorkingExtractor" ->
                  LET r == IF raises THEN EmptyMap
                           ELSE FinalWorkingExtractor_extract_from_tables(TablesOf(cur_page), 1, EmptyMap)
                  IN  Stepped("table", r, IF DOMAIN r # {} THEN "merge" ELSE "coordinates")
            [] conv = "CompleteRealExtractor" ->
                  LET r == IF raises THEN EmptyMap
                           ELSE CompleteRealExtractor_extract_from_tables(TablesOf(cur_page), cur_page.page_num, 1, EmptyMap)
                  IN  Stepped("table", r, IF DOMAIN r # {} THEN "merge" ELSE "raw_text")
            [] OTHER ->
                  \* FinalFixedConverter: page.get_text("dict") raising ends the page,
                  \* find_tables raising leaves no tables
                  \E early \in BOOLEAN :
                      LET r == IF raises THEN EmptyMap
                               ELSE FinalFixedConverter_extract_real_data_from_page(
                                        TablesOf(cur_page), cur_page.page_num, 1, EmptyMap)
                      IN  Stepped("table", r,
                                  IF DOMAIN r # {} \/ (raises /\ early) THEN "merge"
                                  ELSE "text_blocks")

\* the coordinate strategy on the current page
CoordinateStep ==
    /\ pc = "coordinates"
    /\ \E raises \in BOOLEAN :
          IF conv = "FinalWorkingExtractor"
          THEN LET r == IF raises THEN EmptyMap
                        ELSE FinalWorkingExtractor_extract_from_coordinates(ElementsOf(cur_page))
               IN  Stepped("coordinates", r, IF DOMAIN r # {} THEN "merge" ELSE "raw_text")
          ELSE LET r == IF raises THEN EmptyMap
                        ELSE CompleteRealExtractor_extract_from_coordinates(
                                 ElementsOf(cur_page), cur_page.page_num)
               IN  Stepped("coordinates", r, "merge")

\* the raw-text strategy on the current page
RawTextStep ==
    /\ pc = "raw_text"
    /\ \E raises \in BOOLEAN :
          IF conv = "FinalWorkingExtractor"
          THEN LET r == IF raises THEN EmptyMap
                        ELSE FinalWorkingExtractor_extract_from_raw_text(LinesOf(cur_page), 0, EmptyMap)
               IN  Stepped("raw_text", r, "merge")
          ELSE LET r == CompleteRealExtractor_extract_from_text(LinesOf(cur_page), cur_page.page_num)
               IN  IF raises \/ r.exc # "none"
                   THEN /\ Fail(IF raises THEN "PageError" ELSE r.exc)
                        /\ UNCHANGED <<conv, opened, num_pages, page_idx, cur_page, page_cities,
                                       all_cities, tried, page_log, doc_pages, fallback,
                              asm_vars, strat_vars, aux_vars>>
                   ELSE Stepped("raw_text", r.val,
                                IF DOMAIN r.val # {} THEN "merge" ELSE "coordinates")

\* complete_converter.py _extract_from_text_blocks
TextBlocksStep ==
    /\ pc = "text_blocks"
    /\ Stepped("text_blocks", FinalFixedConverter_extract_from_text_blocks, "merge")

\* parser.py / final_converter.py: page.get_text() and the text strategy
TextStep ==
    /\ pc = "text"
    /\ \E raises \in BOOLEAN :
          IF raises
          THEN /\ Fail("PageError")
               /\ UNCHANGED <<conv, opened, num_pages, page_idx, cur_page, page_cities,
                              all_cities, tried, page_log, doc_pages, fallback,
                              asm_vars, strat_vars, aux_vars>>
          ELSE Stepped("text",
                       IF conv = "PDFParser"
                       THEN PDFParser_process_page_text_simple(LinesOf(cur_page), 0, EmptyMap)
                       ELSE FinalConverter_process_page_text(LinesOf(cur_page), 0, EmptyMap),
                       "merge")

\* all_cities.update(page_cities), and on to the next page
MergePage ==
    /\ pc = "merge"
    /\ all_cities' = Update(all_cities, page_cities)
    /\ page_log' = Append(page_log, page_cities)
    /\ page_idx' = page_idx + 1
    /\ pc' = "pages"
    /\ UNCHANGED <<conv, opened, num_pages, cur_page, page_cities, tried, doc_pages,
                   fallback, result>>
    /\ UNCHANGED <<asm_vars, strat_vars, aux_vars>>

\* after the last page: the fallback of the converter when nothing was
\* extracted, then cleaning, validation, saving and the return
Finish ==
    /\ pc = "pages"
    /\ page_idx = num_pages
    /\ pc' = "done"
    /\ CASE conv = "FinalWorkingExtractor" ->
              LET generated == FinalWorkingExtractor_create_comprehensive_dataset_from_names
              IN  IF DOMAIN all_cities # {}
                  THEN /\ result' = Returned(all_cities)
                       /\ UNCHANGED <<all_cities, fallback>>
                  ELSE /\ fallback' = "generator"
                       /\ all_cities' = generated.val
                       /\ result' = generated
         [] conv = "FinalFixedConverter" ->
              LET cities == IF DOMAIN all_cities # {} THEN all_cities
                            ELSE FinalFixedConverter_create_proper_sample_data
              IN  /\ fallback' = IF DOMAIN all_cities # {} THEN "none" ELSE "generator"
                  /\ all_cities' = cities
                  /\ result' = Returned(FinalFixedConverter_clean_structure(cities))
         [] conv = "CompleteRealExtractor" ->
              IF DOMAIN all_cities # {}
              THEN /\ result' = Returned(all_cities)
                   /\ UNCHANGED <<all_cities, fallback>>
              ELSE \E seeds \in [1..CatalogSize -> 0..HashSeeds] :
                      LET generated == CompleteRealExtractor_create_comprehensive_sample(seeds)
                      IN  /\ fallback' = "generator"
                          /\ all_cities' = generated.val
                          /\ result' = generated
         [] conv = "PDFParser" ->
              /\ result' = IF DOMAIN all_cities = {} THEN Raised("ValueError")
                           ELSE IF ~JSONValidator_validate_output(all_cities)
                           THEN Raised("RuntimeError")
                           ELSE Returned(all_cities)
              /\ UNCHANGED <<all_cities, fallback>>
         [] OTHER ->
              LET cities == IF DOMAIN all_cities # {} THEN all_cities
                            ELSE FinalConverter_fallback_parse(doc_pages, 1, EmptyMap)
              IN  /\ fallback' = IF DOMAIN all_cities # {} THEN "none" ELSE "reparse"
                  /\ all_cities' = cities
                  /\ result' = IF DOMAIN cities # {} THEN Returned(cities)
                               ELSE Raised("ValueError")
    /\ UNCHANGED <<conv, opened, num_pages, page_idx, cur_page, page_cities, tried,
                   page_log, doc_pages>>
    /\ UNCHANGED <<asm_vars, strat_vars, aux_vars>>

Next ==
    \/ OpenDocument
    \/ CorrectedConvert
    \/ StartPage
    \/ SkipPage
    \/ TableStep
    \/ CoordinateStep
    \/ RawTextStep
    \/ TextBlocksStep
    \/ TextStep
    \/ MergePage
    \/ Finish

Spec == Init /\ [][Next]_vars

----------------------------------------------------------------------------
(* The fallback generators as the process runs them: every invocation      *)
(* seeds the process-wide random module per city and draws from it; other  *)
(* code may use the module in between; the process may end and a new one   *)
(* start.                                                                   *)

GenClasses == {"FinalWorkingExtractor", "CompleteRealExtractor"}

\* draws of one city: base_mat, base_inst, then three per division
DrawsPerCity == 2 + 3 * NumMain

\* random.seed(seed)
Reseed(seed) == [seed |-> seed, pos |-> 0]

\* the catalog dataset of class g in this process
GeneratedDataset(g) ==
    IF g = "FinalWorkingExtractor"
    THEN FinalWorkingExtractor_create_comprehensive_dataset_from_names
    ELSE CompleteRealExtractor_create_comprehensive_sample(str_hash)

\* the seed of the last city of the catalog, which the invocation leaves in the module
LastSeed(g) ==
    IF g = "FinalWorkingExtractor"
    THEN Prefix(detected_cities, CatalogSize)[Min2(CatalogSize, Len(detected_cities))].seed
    ELSE str_hash[CatalogSize]

InitGen ==
    /\ gen \in GenClasses
    /\ rng \in {Reseed(s) : s \in 0..HashSeeds}
    /\ str_hash \in [1..CatalogSize -> 0..HashSeeds]
    /\ gen_log = << >>
    /\ AsmIdle
    /\ StratIdle
    /\ PipeIdle
    /\ ValIdle
    /\ RowIdle
    /\ TxtIdle
    /\ MainIdle

\* _create_comprehensive_dataset_from_names / _create_comprehensive_sample
GenerateCatalog ==
    /\ Len(gen_log) < MaxGenEvents
    /\ gen_log' = Append(gen_log, [op |-> "generate", out |-> GeneratedDataset(gen)])
    /\ rng' = [seed |-> LastSeed(gen), pos |-> DrawsPerCity]
    /\ UNCHANGED <<gen, str_hash>>
    /\ UNCHANGED <<asm_vars, strat_vars, pipe_vars, val_vars, row_vars, txt_vars, main_vars>>

\* other code of the process draws from the random module or seeds it
OtherRandomUse ==
    /\ Len(gen_log) < MaxGenEvents
    /\ \E reseed \in BOOLEAN : \E s \in 0..HashSeeds :
          rng' = IF reseed THEN Reseed(s) ELSE [rng EXCEPT !.pos = rng.pos + 1]
    /\ gen_log' = Append(gen_log, [op |-> "random", out |-> Returned(EmptyMap)])
    /\ UNCHANGED <<gen, str_hash>>
    /\ UNCHANGED <<asm_vars, strat_vars, pipe_vars, val_vars, row_vars, txt_vars, main_vars>>

\* the interpreter ends and a new one starts: string hashes are salted anew
RestartProcess ==
    /\ Len(gen_log) < MaxGenEvents
    /\ str_hash' \in [1..CatalogSize -> 0..HashSeeds]
    /\ rng' \in {Reseed(s) : s \in 0..HashSeeds}
    /\ gen_log' = Append(gen_log, [op |-> "restart", out |-> Returned(EmptyMap)])
    /\ UNCHANGED gen
    /\ UNCHANGED <<asm_vars, strat_vars, pipe_vars, val_vars, row_vars, txt_vars, main_vars>>

NextGen ==
    \/ GenerateCatalog
    \/ OtherRandomUse
    \/ RestartProcess

SpecGen == InitGen /\ [][NextGen]_vars

----------------------------------------------------------------------------
(* The validator and its error handler.  A call runs in a context c: the   *)
(* handler (eh) and the exception raised so far in the call (exc); once an *)
(* exception is raised nothing else of the call takes effect.              *)

\* the city keys of the mappings validated, in the order the mappings hold them
ValCityKeys == <<"LOS_ANGELES_900-902", "ABILENE_795">>

\* constants.py DATA_TYPES
DATA_TYPES == <<"MAT", "INST", "TOTAL">>

\* dict iteration: the keys of d, visited in the order of the sequence order
KeysInOrder(d, order) == SelectSeq(order, LAMBDA k : k \in DOMAIN d)

Context(eh) == [eh |-> eh, exc |-> "none"]

\* utils.py ErrorHandler.add_error
ErrorHandler_add_error(c, message) ==
    IF c.exc # "none" THEN c
    ELSE LET errors == Append(c.eh.errors, message)
         IN  [eh  |-> [c.eh EXCEPT !.errors = errors],
              exc |-> IF Len(errors) >= c.eh.max_errors THEN "RuntimeError" ELSE "none"]

\* utils.py ErrorHandler.add_warning
ErrorHandler_add_warning(c, message) ==
    IF c.exc # "none" THEN c
    ELSE [c EXCEPT !.eh.warnings = Append(@, message)]

\* utils.py ErrorHandler.clear
ErrorHandler_clear(eh) == [eh EXCEPT !.errors = << >>, !.warnings = << >>]

\* validator.py _validate_numeric_value (values in tenths; the inputs hold numbers or None)
Validator_validate_numeric_value(c, value, where) ==
    IF value = None THEN [c |-> c, ok |-> FALSE]
    ELSE [c  |-> IF value < 0 \/ value > UnusualAbove
                 THEN ErrorHandler_add_warning(c, "Unusual value for " \o where)
                 ELSE c,
          ok |-> TRUE]

\* validator.py _validate_division_data: for data_type in DATA_TYPES
RECURSIVE Validator_data_types(_, _, _, _, _)
Validator_data_types(c, division_data, where, i, has_data) ==
    IF c.exc # "none" \/ i > Len(DATA_TYPES) THEN [c |-> c, ok |-> has_data]
    ELSE IF DATA_TYPES[i] \in DOMAIN division_data
         THEN LET r == Validator_validate_numeric_value(c, division_data[DATA_TYPES[i]],
                                                        where \o "." \o DATA_TYPES[i])
              IN  Validator_data_types(r.c, division_data, where, i + 1, has_data \/ r.ok)
         ELSE Validator_data_types(c, division_data, where, i + 1, has_data)

RECURSIVE Validator_validate_division_data(_, _, _)
RECURSIVE Validator_validate_subdivisions(_, _, _, _)

\* validator.py _validate_division_data, after the data types: the warning and the subdivisions
Validator_after_data_types(r, where, division_data) ==
    IF "subdivisions" \in DOMAIN division_data
    THEN Validator_validate_subdivisions(
             IF r.ok THEN r.c
             ELSE ErrorHandler_add_warning(r.c, "No valid data values found for " \o where),
             where, division_data["subdivisions"],
             KeysInOrder(division_data["subdivisions"], DIVISION_CODES))
    ELSE IF r.ok THEN r.c
         ELSE ErrorHandler_add_warning(r.c, "No valid data values found for " \o where)

\* validator.py _validate_division_data (where is city_key.division_code)
Validator_validate_division_data(c, where, division_data) ==
    IF "division" \notin DOMAIN division_data
    THEN [c  |-> ErrorHandler_add_error(c, "Missing 'division' field for " \o where),
          ok |-> FALSE]
    ELSE [c  |-> Validator_after_data_types(
                     Validator_data_types(c, division_data, where, 1, FALSE),
                     where, division_data),
          ok |-> TRUE]

\* validator.py _validate_subdivisions: the loop over the subdivisions still to visit
Validator_validate_subdivisions(c, where, subdivisions, codes) ==
    IF c.exc # "none" \/ codes = << >> THEN c
    ELSE Validator_validate_subdivisions(
             Validator_validate_division_data(c, where \o "." \o Head(codes),
                                              subdivisions[Head(codes)]).c,
             where, subdivisions, Tail(codes))

\* the loop over the divisions of one city: context, and number of valid divisions
RECURSIVE Validator_divisions(_, _, _, _, _)
Validator_divisions(c, city_key, city_data, i, valid_divisions) ==
    LET codes == KeysInOrder(city_data, DIVISION_CODES)
    IN  IF c.exc # "none" \/ i > Len(codes) THEN [c |-> c, valid |-> valid_divisions]
        ELSE LET r == Validator_validate_division_data(c, city_key \o "." \o codes[i],
                                                       city_data[codes[i]])
             IN  Validator_divisions(r.c, city_key, city_data, i + 1,
                                     valid_divisions + (IF r.ok THEN 1 ELSE 0))

\* validator.py _validate_city_data
Validator_validate_city_data(c, city_key, city_data) ==
    IF DOMAIN city_data = {}
    THEN [c  |-> ErrorHandler_add_error(c, "No division data found for city " \o city_key),
          ok |-> FALSE]
    ELSE LET r == Validator_divisions(c, city_key, city_data, 1, 0)
             expected_divisions == Len(DIVISION_CODES)
         IN  [c  |-> IF 10 * r.valid < expected_divisions * 8
                     THEN ErrorHandler_add_warning(r.c, "City " \o city_key
                                                        \o " has only few valid divisions")
                     ELSE r.c,
              ok |-> r.valid > 0]

\* validator.py _validate_structure
Validator_validate_structure(c, data) ==
    IF DOMAIN data = {}
    THEN [c |-> ErrorHandler_add_error(c, "No city data found"), ok |-> FALSE]
    ELSE [c |-> c, ok |-> TRUE]

\* validator.py validate_output: the loop over the cities
RECURSIVE Validator_cities(_, _, _, _)
Validator_cities(c, data, i, valid_cities) ==
    LET keys == KeysInOrder(data, ValCityKeys)
    IN  IF c.exc # "none" \/ i > Len(keys) THEN [c |-> c, valid |-> valid_cities]
        ELSE LET r == Validator_validate_city_data(c, keys[i], data[keys[i]])
             IN  Validator_cities(r.c, data, i + 1, valid_cities + (IF r.ok THEN 1 ELSE 0))

\* validator.py validate_output
Validator_validate_output(c, strict, data) ==
    IF data = EmptyMap
    THEN [c |-> ErrorHandler_add_error(c, "Output data is empty"), ok |-> FALSE]
    ELSE LET s == Validator_validate_structure(c, data)
         IN  IF ~s.ok THEN s
             ELSE LET r == Validator_cities(s.c, data, 1, 0)
                  IN  IF strict /\ r.valid # Cardinality(DOMAIN data)
                      THEN [c  |-> ErrorHandler_add_error(r.c, "Strict validation failed"),
                            ok |-> FALSE]
                      ELSE [c |-> r.c, ok |-> TRUE]

\* validator.py validate_against_schema: the report before the loop
EmptyReport ==
    [valid |-> TRUE, cities_processed |-> 0, cities_valid |-> 0,
     divisions_processed |-> 0, divisions_valid |-> 0, missing_divisions |-> << >>,
     errors |-> << >>, warnings |-> << >>]

\* validator.py validate_against_schema: the loop over the cities
RECURSIVE Validator_schema_cities(_, _, _, _)
Validator_schema_cities(c, report, data, i) ==
    LET keys == KeysInOrder(data, ValCityKeys)
    IN  IF c.exc # "none" \/ i > Len(keys) THEN [c |-> c, report |-> report]
        ELSE LET city_key == keys[i]
                 city_divisions == DOMAIN data[city_key]
                 r == Validator_divisions(c, city_key, data[city_key], 1, 0)
                 expected_divisions == {DIVISION_CODES[n] : n \in 1..Len(DIVISION_CODES)}
                 missing == expected_divisions \ city_divisions
                 city_valid == /\ r.valid = Cardinality(city_divisions)
                               /\ ~(5 * Cardinality(missing) > Cardinality(expected_divisions))
             IN  Validator_schema_cities(r.c,
                     [report EXCEPT
                         !.cities_processed = @ + 1,
                         !.divisions_processed = @ + Cardinality(city_divisions),
                         !.divisions_valid = @ + r.valid,
                         !.missing_divisions =
                             IF missing # {}
                             THEN Append(@, [city |-> city_key, missing |-> missing])
                             ELSE @,
                         !.cities_valid = @ + (IF city_valid THEN 1 ELSE 0)],
                     data, i + 1)

\* validator.py validate_against_schema
Validator_validate_against_schema(c, data) ==
    IF data = EmptyMap
    THEN [c |-> c,
          report |-> [EmptyReport EXCEPT !.valid = FALSE,
                                         !.errors = <<"No data to validate">>]]
    ELSE LET r == Validator_schema_cities(c, EmptyReport, data, 1)
         IN  [c |-> r.c,
              report |-> [r.report EXCEPT
                  !.valid = ~(10 * r.report.cities_valid < 8 * r.report.cities_processed),
                  !.errors = @ \o r.c.eh.errors,
                  !.warnings = @ \o r.c.eh.warnings]]

\* validator.py get_data_quality_metrics: the (city, division, data type) triples counted
DataPoints(data) ==
    {<<k, code, t>> \in (DOMAIN data) \X {DIVISION_CODES[n] : n \in 1..Len(DIVISION_CODES)}
                         \X DataTypeSet : code \in DOMAIN data[k]}

\* validator.py get_data_quality_metrics; the percentage is the exact fraction num / den
Validator_get_data_quality_metrics(data) ==
    LET total_possible_data_points == Cardinality(DataPoints(data))
        complete == Cardinality({p \in DataPoints(data) :
                        /\ p[3] \in DOMAIN data[p[1]][p[2]]
                        /\ data[p[1]][p[2]][p[3]] # None})
    IN  [total_cities |-> Cardinality(DOMAIN data),
         total_divisions |-> total_possible_data_points \div 3,
         complete_data_points |-> complete,
         missing_data_points |-> total_possible_data_points - complete,
         data_completeness_percentage |->
             IF total_possible_data_points > 0
             THEN [num |-> complete * 100, den |-> total_possible_data_points]
             ELSE [num |-> 0, den |-> 1]]

----------------------------------------------------------------------------
(* The mappings handed to the validator *)

AllCodes == {DIVISION_CODES[n] : n \in 1..Len(DIVISION_CODES)}

MainCodeSet == {main_divisions[n][1] : n \in 1..Len(main_divisions)}

DescriptionOf(code) ==
    DIVISION_DESCRIPTIONS[CHOOSE n \in 1..Len(DIVISION_CODES) : DIVISION_CODES[n] = code]

\* a division entry as the converters write it: description and the three values
FullEntry(code) ==
    [division |-> DescriptionOf(code), MAT |-> 979, INST |-> 1011, TOTAL |-> 1011]

CityWith(codes) == [code \in codes |-> FullEntry(code)]

\* tests/test_converter.py TestJSONValidator.setUp: the city of valid_data and variations
ValCityShapes ==
    { EmptyMap,
      CityWith({"015433", "03"}),
      CityWith(MainCodeSet),
      CityWith(AllCodes),
      CityWith(AllCodes \ {"0310", "0320", "0330", "0920"}),
      CityWith(AllCodes \ {"0310", "0320", "0330", "0920", "0960"}),
      Put(CityWith(MainCodeSet), "03",
          [subdivisions |-> CityWith({"0310", "0320", "0330"})] @@ FullEntry("03")),
      [CityWith({"015433", "03"}) EXCEPT !["03"] = [MAT |-> 953]],
      [CityWith({"015433", "03"}) EXCEPT !["03"] = [division |-> "CONCRETE", MAT |-> None]],
      [CityWith({"015433", "03"}) EXCEPT !["03"].MAT = 10005] }

ValInputs ==
    UNION {[keys -> ValCityShapes] : keys \in SUBSET {ValCityKeys[n] : n \in 1..Len(ValCityKeys)}}

----------------------------------------------------------------------------
(* A validator and the calls made on it *)

InitVal ==
    /\ val_data \in ValInputs
    /\ strict_mode \in BOOLEAN
    /\ error_handler = ErrorHandler_init(DefaultMaxErrors)
    /\ val_log = << >>
    /\ AsmIdle
    /\ StratIdle
    /\ PipeIdle
    /\ GenIdle
    /\ RowIdle
    /\ TxtIdle
    /\ MainIdle

\* JSONValidator.validate_output(data)
ValidateOutput ==
    /\ Len(val_log) < MaxValCalls
    /\ LET r == Validator_validate_output(Context(error_handler), strict_mode, val_data)
       IN  /\ error_handler' = r.c.eh
           /\ val_log' = Append(val_log, [op |-> "validate_output", exc |-> r.c.exc,
                                          out |-> r.ok])
    /\ UNCHANGED <<val_data, strict_mode>>
    /\ UNCHANGED <<asm_vars, strat_vars, pipe_vars, gen_vars, row_vars, txt_vars, main_vars>>

\* JSONValidator.validate_against_schema(data)
ValidateAgainstSchema ==
    /\ Len(val_log) < MaxValCalls
    /\ LET r == Validator_validate_against_schema(Context(error_handler), val_data)
       IN  /\ error_handler' = r.c.eh
           /\ val_log' = Append(val_log, [op |-> "validate_against_schema", exc |-> r.c.exc,
                                          out |-> r.report])
    /\ UNCHANGED <<val_data, strict_mode>>
    /\ UNCHANGED <<asm_vars, strat_vars, pipe_vars, gen_vars, row_vars, txt_vars, main_vars>>

\* JSONValidator.get_data_quality_metrics(data)
GetDataQualityMetrics ==
    /\ Len(val_log) < MaxValCalls
    /\ val_log' = Append(val_log, [op |-> "get_data_quality_metrics", exc |-> "none",
                                   out |-> Validator_get_data_quality_metrics(val_data)])
    /\ UNCHANGED <<val_data, strict_mode, error_handler>>
    /\ UNCHANGED <<asm_vars, strat_vars, pipe_vars, gen_vars, row_vars, txt_vars, main_vars>>

NextVal ==
    \/ ValidateOutput
    \/ ValidateAgainstSchema
    \/ GetDataQualityMetrics

SpecVal == InitVal /\ [][NextVal]_vars

----------------------------------------------------------------------------
(* An error handler with a limit and the calls made on it *)

InitErr ==
    /\ val_data = EmptyMap
    /\ strict_mode = TRUE
    /\ error_handler \in {ErrorHandler_init(n) : n \in 1..MaxLimit}
    /\ val_log = << >>
    /\ AsmIdle
    /\ StratIdle
    /\ PipeIdle
    /\ GenIdle
    /\ RowIdle
    /\ TxtIdle
    /\ MainIdle

\* ErrorHandler.add_error(message)
AddError ==
    /\ Len(val_log) < MaxErrCalls
    /\ LET c == ErrorHandler_add_error(Context(error_handler), "Test error")
       IN  /\ error_handler' = c.eh
           /\ val_log' = Append(val_log, [op |-> "add_error", exc |-> c.exc,
                                          out |-> Len(c.eh.errors)])
    /\ UNCHANGED <<val_data, strict_mode>>
    /\ UNCHANGED <<asm_vars, strat_vars, pipe_vars, gen_vars, row_vars, txt_vars, main_vars>>

\* ErrorHandler.add_warning(message)
AddWarning ==
    /\ Len(val_log) < MaxErrCalls
    /\ LET c == ErrorHandler_add_warning(Context(error_handler), "Test warning")
       IN  /\ error_handler' = c.eh
           /\ val_log' = Append(val_log, [op |-> "add_warning", exc |-> c.exc,
                                          out |-> Len(c.eh.warnings)])
    /\ UNCHANGED <<val_data, strict_mode>>
    /\ UNCHANGED <<asm_vars, strat_vars, pipe_vars, gen_vars, row_vars, txt_vars, main_vars>>

\* ErrorHandler.clear()
ClearHandler ==
    /\ Len(val_log) < MaxErrCalls
    /\ error_handler' = ErrorHandler_clear(error_handler)
    /\ val_log' = Append(val_log, [op |-> "clear", exc |-> "none", out |-> 0])
    /\ UNCHANGED <<val_data, strict_mode>>
    /\ UNCHANGED <<asm_vars, strat_vars, pipe_vars, gen_vars, row_vars, txt_vars, main_vars>>

NextErr ==
    \/ AddError
    \/ AddWarning
    \/ ClearHandler

SpecErr == InitErr /\ [][NextErr]_vars

----------------------------------------------------------------------------
(* The row classifier of utils.py.  A line is the sequence of its          *)
(* whitespace-separated tokens, a token the sequence of its characters; a  *)
(* number is held in units of 10^-FracDigits.                              *)

DigitChars == <<"0", "1", "2", "3", "4", "5", "6", "7", "8", "9">>

IsDigit(ch) == \E d \in 1..10 : DigitChars[d] = ch

DigitValue(ch) == (CHOOSE d \in 1..10 : DigitChars[d] = ch) - 1

\* \w of the characters the lines are written with
WordChars ==
    {DigitChars[d] : d \in 1..10} \cup {"M", "A", "T", "I", "N", "S", "O", "L", "_"}

\* clean_text: re.sub(r'[^\w\s\-\.,&]', '', text) on one token
CleanToken(tok) == SelectSeq(tok, LAMBDA ch : ch \in WordChars \cup {"-", ".", ",", "&"})

\* utils.py clean_text: whitespace collapsed, other characters removed, ends stripped
RECURSIVE DataProcessor_clean_text(_)
DataProcessor_clean_text(line) ==
    IF line = << >> THEN << >>
    ELSE IF CleanToken(Head(line)) = << >>
         THEN DataProcessor_clean_text(Tail(line))
         ELSE <<CleanToken(Head(line))>> \o DataProcessor_clean_text(Tail(line))

\* constants.py DATA_ROW_PATTERN, group 1: (MAT\.|INST\.|TOTAL)
RowLabels == { <<"M", "A", "T", ".">>, <<"I", "N", "S", "T", ".">>, <<"T", "O", "T", "A", "L">> }

\* constants.py DATA_ROW_PATTERN, group 2: ([\d\.\s]+)
IsValuesString(toks) ==
    /\ toks # << >>
    /\ \A n \in 1..Len(toks) : \A k \in 1..Len(toks[n]) :
          IsDigit(toks[n][k]) \/ toks[n][k] = "."

\* re.match(DATA_ROW_PATTERN, line)
MatchesDataRow(line) ==
    /\ Len(line) >= 2
    /\ line[1] \in RowLabels
    /\ IsValuesString(Tail(line))

\* end of the run of digits that starts at position s of tok
RECURSIVE DigitRunEnd(_, _)
DigitRunEnd(tok, s) ==
    IF s < Len(tok) /\ IsDigit(tok[s + 1]) THEN DigitRunEnd(tok, s + 1) ELSE s

\* float(num) of the digits tok[s..e] '.' tok[e+2..f]
RECURSIVE DigitsToInt(_, _, _, _)
DigitsToInt(tok, s, e, acc) ==
    IF s > e THEN acc ELSE DigitsToInt(tok, s + 1, e, acc * 10 + DigitValue(tok[s]))

RECURSIVE Pow10(_)
Pow10(n) == IF n = 0 THEN 1 ELSE 10 * Pow10(n - 1)

ToFloat(tok, s, e, f) ==
    DigitsToInt(tok, s, e, 0) * Pow10(FracDigits)
        + DigitsToInt(tok, e + 2, Min2(f, e + 1 + FracDigits), 0)
            * Pow10(FracDigits - Min2(f - e - 1, FracDigits))

\* re.findall(NUMBER_PATTERN, ...) within one token, from position s on: \d+\.\d+
RECURSIVE FindNumbers(_, _)
FindNumbers(tok, s) ==
    IF s > Len(tok) THEN << >>
    ELSE IF ~IsDigit(tok[s]) THEN FindNumbers(tok, s + 1)
    ELSE LET e == DigitRunEnd(tok, s)
         IN  IF e + 2 <= Len(tok) /\ tok[e + 1] = "." /\ IsDigit(tok[e + 2])
             THEN <<ToFloat(tok, s, e, DigitRunEnd(tok, e + 2))>>
                      \o FindNumbers(tok, DigitRunEnd(tok, e + 2) + 1)
             ELSE FindNumbers(tok, e + 1)

\* numbers = re.findall(NUMBER_PATTERN, values_str); values = [float(num) for num in numbers]
RECURSIVE DataProcessor_extract_numbers(_)
DataProcessor_extract_numbers(toks) ==
    IF toks = << >> THEN << >>
    ELSE FindNumbers(Head(toks), 1) \o DataProcessor_extract_numbers(Tail(toks))

\* match.group(1).replace('.', '')
RemovePeriod(tok) == SelectSeq(tok, LAMBDA ch : ch # ".")

NoRow == [matched |-> FALSE, data_type |-> << >>, values |-> << >>]

\* utils.py parse_data_row
DataProcessor_parse_data_row(line) ==
    LET cleaned == DataProcessor_clean_text(line)
    IN  IF MatchesDataRow(cleaned)
        THEN [matched |-> TRUE, data_type |-> RemovePeriod(cleaned[1]),
              values |-> DataProcessor_extract_numbers(Tail(cleaned))]
        ELSE NoRow

\* the decimal digits of n
RECURSIVE IntToDigits(_)
IntToDigits(n) ==
    IF n < 10 THEN <<DigitChars[n + 1]>>
    ELSE IntToDigits(n \div 10) \o <<DigitChars[(n % 10) + 1]>>

\* the fraction digits of frac, written with width digits, trailing zeros dropped
RECURSIVE FractionDigits(_, _)
FractionDigits(frac, width) ==
    IF width <= 1 THEN <<DigitChars[frac + 1]>>
    ELSE IF frac % 10 = 0 THEN FractionDigits(frac \div 10, width - 1)
    ELSE FractionDigits(frac \div 10, width - 1) \o <<DigitChars[(frac % 10) + 1]>>

\* str(value) of a float: 97.9, 142.0
FloatToStr(v) ==
    IntToDigits(v \div Pow10(FracDigits)) \o <<".">>
        \o FractionDigits(v % Pow10(FracDigits), FracDigits)

\* kind + ' ' + ' '.join(str(v) for v in values)
Serialise(kind, values) == <<kind>> \o [n \in 1..Len(values) |-> FloatToStr(values[n])]

----------------------------------------------------------------------------
(* The lines handed to the row classifier *)

LabelTokens ==
    { <<"M", "A", "T">>, <<"M", "A", "T", ".">>, <<"I", "N", "S", "T">>,
      <<"I", "N", "S", "T", ".">>, <<"T", "O", "T", "A", "L">>,
      <<"T", "O", "T", "A", "L", ".">> }

\* 97.9, 142.0, 1.10, 0.5 and $61.4
DecimalTokens ==
    { <<"9", "7", ".", "9">>, <<"1", "4", "2", ".", "0">>, <<"1", ".", "1", "0">>,
      <<"0", ".", "5">>, <<"$", "6", "1", ".", "4">> }

\* 100 (no fraction) and N/A
OtherTokens == { <<"1", "0", "0">>, <<"N", "/", "A">> }

RowInputs ==
    UNION {{<<label>> \o toks : toks \in [1..n -> DecimalTokens \cup OtherTokens]} :
              <<label, n>> \in LabelTokens \X (1..MaxValues)}

----------------------------------------------------------------------------
(* A line parsed, re-serialised and parsed again *)

InitRow ==
    /\ row_line \in RowInputs
    /\ row_first = NoRow
    /\ row_text = << >>
    /\ row_second = NoRow
    /\ row_pc = "ready"
    /\ AsmIdle
    /\ StratIdle
    /\ PipeIdle
    /\ GenIdle
    /\ ValIdle
    /\ TxtIdle
    /\ MainIdle

\* result = DataProcessor.parse_data_row(line)
ParseRow ==
    /\ row_pc = "ready"
    /\ row_first' = DataProcessor_parse_data_row(row_line)
    /\ row_pc' = "parsed"
    /\ UNCHANGED <<row_line, row_text, row_second>>
    /\ UNCHANGED <<asm_vars, strat_vars, pipe_vars, gen_vars, val_vars, txt_vars, main_vars>>

\* the result written back as a line
SerialiseRow ==
    /\ row_pc = "parsed"
    /\ row_first.matched
    /\ row_text' = Serialise(row_first.data_type, row_first.values)
    /\ row_pc' = "serialised"
    /\ UNCHANGED <<row_line, row_first, row_second>>
    /\ UNCHANGED <<asm_vars, strat_vars, pipe_vars, gen_vars, val_vars, txt_vars, main_vars>>

\* DataProcessor.parse_data_row of the line written back
ParseAgain ==
    /\ row_pc = "serialised"
    /\ row_second' = DataProcessor_parse_data_row(row_text)
    /\ row_pc' = "reparsed"
    /\ UNCHANGED <<row_line, row_first, row_text>>
    /\ UNCHANGED <<asm_vars, strat_vars, pipe_vars, gen_vars, val_vars, txt_vars, main_vars>>

NextRow ==
    \/ ParseRow
    \/ SerialiseRow
    \/ ParseAgain

SpecRow == InitRow /\ [][NextRow]_vars

----------------------------------------------------------------------------
(* Text functions on character level: a text is the sequence of its        *)
(* characters.  The City/ZIP recognizers and the city key builders.        *)

UpperLetters == <<"A", "B", "C", "D", "E", "F", "G", "H", "I", "J", "K", "L", "M",
                  "N", "O", "P", "Q", "R", "S", "T", "U", "V", "W", "X", "Y", "Z">>

LowerLetters == <<"a", "b", "c", "d", "e", "f", "g", "h", "i", "j", "k", "l", "m",
                  "n", "o", "p", "q", "r", "s", "t", "u", "v", "w", "x", "y", "z">>

IsUpper(ch) == \E n \in 1..26 : UpperLetters[n] = ch

IsLower(ch) == \E n \in 1..26 : LowerLetters[n] = ch

\* \s and \w of the characters the texts are written with
IsSpace(ch) == ch = " "

IsWord(ch) == IsUpper(ch) \/ IsLower(ch) \/ IsDigit(ch) \/ ch = "_"

\* str.upper()
UpperChar(ch) ==
    IF IsLower(ch) THEN UpperLetters[CHOOSE n \in 1..26 : LowerLetters[n] = ch] ELSE ch

ToUpper(text) == [n \in 1..Len(text) |-> UpperChar(text[n])]

\* str.strip()
RECURSIVE LStrip(_)
LStrip(text) ==
    IF text # << >> /\ IsSpace(Head(text)) THEN LStrip(Tail(text)) ELSE text

RECURSIVE RStrip(_)
RStrip(text) ==
    IF text # << >> /\ IsSpace(text[Len(text)])
    THEN RStrip(SubSeq(text, 1, Len(text) - 1)) ELSE text

Strip(text) == LStrip(RStrip(text))

\* re.sub(r'\s+', rep, text): every run of whitespace becomes rep
RECURSIVE SubSpaces(_, _)
SubSpaces(text, rep) ==
    IF text = << >> THEN << >>
    ELSE IF IsSpace(Head(text))
         THEN rep \o SubSpaces(LStrip(text), rep)
         ELSE <<Head(text)>> \o SubSpaces(Tail(text), rep)

\* utils.py clean_text on the characters of a text
CleanText(text) ==
    Strip(SelectSeq(SubSpaces(Strip(text), <<" ">>),
                    LAMBDA ch : IsWord(ch) \/ IsSpace(ch) \/ ch \in {"-", ".", ",", "&"}))

\* the position after \d{3} at position i of text, 0 when there is no match
Digits3(text, i) ==
    IF i >= 1 /\ i + 2 <= Len(text) /\ IsDigit(text[i]) /\ IsDigit(text[i + 1])
          /\ IsDigit(text[i + 2])
    THEN i + 3 ELSE 0

\* the position after \s* at position i of text
RECURSIVE SkipSpaces(_, _)
SkipSpaces(text, i) ==
    IF i <= Len(text) /\ IsSpace(text[i]) THEN SkipSpaces(text, i + 1) ELSE i

IsAt(text, i, ch) == i >= 1 /\ i <= Len(text) /\ text[i] = ch

\* the position after \s*-\s*\d{3} at position i, 0 when there is no match
RangeEnd(text, i) ==
    IF IsAt(text, SkipSpaces(text, i), "-")
    THEN Digits3(text, SkipSpaces(text, SkipSpaces(text, i) + 1))
    ELSE 0

\* the position after (?:\s*,\s*\d{3})* at position i
RECURSIVE CommaCodesEnd(_, _)
CommaCodesEnd(text, i) ==
    IF IsAt(text, SkipSpaces(text, i), ",")
          /\ Digits3(text, SkipSpaces(text, SkipSpaces(text, i) + 1)) # 0
    THEN CommaCodesEnd(text, Digits3(text, SkipSpaces(text, SkipSpaces(text, i) + 1)))
    ELSE i

\* constants.py CITY_ZIP_PATTERN, group 2 up to $: \d{3}(?:\s*-\s*\d{3})?(?:\s*,\s*\d{3})*
ZipSpecMatches(zip) ==
    /\ Digits3(zip, 1) # 0
    /\ CommaCodesEnd(zip, IF RangeEnd(zip, 4) # 0 THEN RangeEnd(zip, 4) ELSE 4) = Len(zip) + 1

\* real_pdf_extractor.py patterns, group 2 up to $:
\* \d{3}\s*-\s*\d{3}  |  \d{3},\s*\d{3}  |  \d{3}
CellZipMatches(zip) ==
    /\ Digits3(zip, 1) # 0
    /\ \/ RangeEnd(zip, 4) = Len(zip) + 1
       \/ IsAt(zip, 4, ",") /\ Digits3(zip, SkipSpaces(zip, 5)) = Len(zip) + 1
       \/ Len(zip) = 3

\* position of the first digit of text (Len + 1 when there is none)
RECURSIVE FirstDigit(_, _)
FirstDigit(text, i) ==
    IF i > Len(text) \/ IsDigit(text[i]) THEN i ELSE FirstDigit(text, i + 1)

NoMatch == [matched |-> FALSE, city_name |-> << >>, zip_codes |-> << >>]

\* re.match(r'^(name class +)\s+(zip)$', text): the name class holds no digit and the
\* ZIP starts with one, so the ZIP starts at the first digit of the text
MatchCityZip(text, name_chars, ZipMatches(_)) ==
    LET d == FirstDigit(text, 1)
        head == SubSeq(text, 1, d - 1)
        zip == SubSeq(text, d, Len(text))
    IN  IF /\ Len(head) >= 2
           /\ IsSpace(head[Len(head)])
           /\ \A n \in 1..Len(head) : IsUpper(head[n]) \/ IsSpace(head[n]) \/ head[n] \in name_chars
           /\ ZipMatches(zip)
        THEN [matched |-> TRUE, city_name |-> Strip(head), zip_codes |-> Strip(zip)]
        ELSE NoMatch

\* utils.py parse_city_zip
DataProcessor_parse_city_zip(line) ==
    MatchCityZip(CleanText(line), {".", "-", "&"}, ZipSpecMatches)

\* real_pdf_extractor.py _is_valid_city_name: exclude_terms
exclude_terms ==
    { <<"M", "A", "T">>,
      <<"I", "N", "S", "T">>,
      <<"T", "O", "T", "A", "L">>,
      <<"D", "I", "V", "I", "S", "I", "O", "N">>,
      <<"A", "V", "E", "R", "A", "G", "E">>,
      <<"E", "Q", "U", "I", "P", "M", "E", "N", "T">>,
      <<"C", "O", "N", "C", "R", "E", "T", "E">>,
      <<"M", "A", "S", "O", "N", "R", "Y">>,
      <<"M", "E", "T", "A", "L", "S">>,
      <<"T", "H", "E", "R", "M", "A", "L">>,
      <<"O", "P", "E", "N", "I", "N", "G", "S">>,
      <<"F", "I", "N", "I", "S", "H", "E", "S">>,
      <<"C", "O", "V", "E", "R", "S">>,
      <<"F", "I", "R", "E">>,
      <<"E", "L", "E", "C", "T", "R", "I", "C", "A", "L">>,
      <<"W", "E", "I", "G", "H", "T", "E", "D">> }

\* term in city_name
Contains(text, term) ==
    \E n \in 1..(Len(text) - Len(term) + 1) : SubSeq(text, n, n + Len(term) - 1) = term

\* real_pdf_extractor.py _is_valid_city_name
FinalWorkingExtractor_is_valid_city_name_text(city_name) ==
    /\ Len(city_name) >= MinNameLength
    /\ ~\E term \in exclude_terms : Contains(ToUpper(city_name), term)

\* real_pdf_extractor.py _extract_city_zip_from_cell
FinalWorkingExtractor_extract_city_zip_from_cell(cell_str) ==
    LET m == MatchCityZip(cell_str, {"&", ".", "-", "/"}, CellZipMatches)
    IN  IF m.matched /\ FinalWorkingExtractor_is_valid_city_name_text(m.city_name)
        THEN m ELSE NoMatch

\* utils.py create_city_key
DataProcessor_create_city_key(city_name, zip_codes) ==
    ToUpper(CleanText(city_name)) \o <<"_">> \o CleanText(zip_codes)

\* parser.py _create_city_key
PDFParser_create_city_key(city_name, zip_codes) ==
    SubSpaces(ToUpper(Strip(SelectSeq(city_name, LAMBDA ch : IsWord(ch) \/ IsSpace(ch)))),
              <<"_">>)
        \o <<"_">> \o Strip(zip_codes)

----------------------------------------------------------------------------
(* The texts handed to the recognizers and to the key builders *)

\* ATLANTA, NEW YORK; TOTAL and DIVISION (excluded terms); AB (short); A.-& (few letters)
FragmentNames ==
    { <<"A", "T", "L", "A", "N", "T", "A">>,
      <<"N", "E", "W", " ", "Y", "O", "R", "K">>,
      <<"T", "O", "T", "A", "L">>,
      <<"D", "I", "V", "I", "S", "I", "O", "N">>,
      <<"A", "B">>,
      <<"A", ".", "-", "&">> }

\* a 3-digit code, a range of two codes written tight or spaced
ZipItems == { <<"3", "0", "0">>, <<"9", "5", "6", "-", "9", "5", "8">>, <<"3", "0", "0", " ", "-", " ", "3", "0", "3">> }

\* the items of a ZIP spec joined by commas
RECURSIVE JoinItems(_)
JoinItems(items) ==
    IF Len(items) = 1 THEN items[1]
    ELSE items[1] \o <<",">> \o JoinItems(Tail(items))

ZipSpecs == UNION {{JoinItems(items) : items \in [1..n -> ZipItems]} : n \in 1..MaxZipItems}

\* Los Angeles, New York, ST. LOUIS
KeyNames == { <<"L", "o", "s", " ", "A", "n", "g", "e", "l", "e", "s">>,
      <<"N", "e", "w", " ", "Y", "o", "r", "k">>,
      <<"S", "T", ".", " ", "L", "O", "U", "I", "S">>,
      <<"A", "T", "L", "A", "N", "T", "A">> }

KeyZips == { <<"9", "0", "0", " ", "-", " ", "9", "0", "2">>, <<"1", "0", "0">> }

TextInputs ==
    {[kind |-> "fragment", name |-> nm, zip |-> z] : nm \in FragmentNames, z \in ZipSpecs}
    \cup {[kind |-> "key", name |-> nm, zip |-> z] : nm \in KeyNames, z \in KeyZips}

----------------------------------------------------------------------------
(* One call of the recognizers or of the key builders on a text *)

InitText ==
    /\ txt_in \in TextInputs
    /\ txt_out = << >>
    /\ txt_pc = "ready"
    /\ AsmIdle
    /\ StratIdle
    /\ PipeIdle
    /\ GenIdle
    /\ ValIdle
    /\ RowIdle
    /\ MainIdle

\* DataProcessor.parse_city_zip(text) and FinalWorkingExtractor._extract_city_zip_from_cell(text)
ParseCityZip ==
    /\ txt_pc = "ready"
    /\ txt_in.kind = "fragment"
    /\ txt_out' =
          [utils |-> DataProcessor_parse_city_zip(txt_in.name \o <<" ">> \o txt_in.zip),
           cell  |-> FinalWorkingExtractor_extract_city_zip_from_cell(
                         txt_in.name \o <<" ">> \o txt_in.zip)]
    /\ txt_pc' = "done"
    /\ UNCHANGED txt_in
    /\ UNCHANGED <<asm_vars, strat_vars, pipe_vars, gen_vars, val_vars, row_vars, main_vars>>

\* DataProcessor.create_city_key(name, zip) and PDFParser._create_city_key(name, zip)
CreateCityKey ==
    /\ txt_pc = "ready"
    /\ txt_in.kind = "key"
    /\ txt_out' = [utils  |-> DataProcessor_create_city_key(txt_in.name, txt_in.zip),
                   parser |-> PDFParser_create_city_key(txt_in.name, txt_in.zip)]
    /\ txt_pc' = "done"
    /\ UNCHANGED txt_in
    /\ UNCHANGED <<asm_vars, strat_vars, pipe_vars, gen_vars, val_vars, row_vars, main_vars>>

NextText ==
    \/ ParseCityZip
    \/ CreateCityKey

SpecText == InitText /\ [][NextText]_vars

----------------------------------------------------------------------------
(* The row grouping of the coordinate strategy on its own: text fragments   *)
(* at positions (x, y) of a page, sorted and grouped by                     *)
(* _extract_from_coordinates.                                                *)

MaxFragments == 3
MaxYSteps == 4

\* the positions of the modelled fragments: y in steps of SpanJitter
FragmentYs == {100 + SpanJitter * i : i \in 0..MaxYSteps}
FragmentXs == {10, 50}
Fragments == [y : FragmentYs, x : FragmentXs]

\* the sort key (e["y"], e["x"])
PositionBefore(a, b) == a.y < b.y \/ (a.y = b.y /\ a.x <= b.x)

\* insertion of e into a sorted list, after the elements of an equal key
RECURSIVE InsertByPosition(_, _)
InsertByPosition(sorted, e) ==
    IF sorted = << >> THEN << e >>
    ELSE IF PositionBefore(Head(sorted), e)
         THEN << Head(sorted) >> \o InsertByPosition(Tail(sorted), e)
         ELSE << e >> \o sorted

\* elements.sort(key=lambda e: (e["y"], e["x"]))
RECURSIVE SortByPosition(_)
SortByPosition(elements) ==
    IF elements = << >> THEN << >>
    ELSE InsertByPosition(SortByPosition(SubSeq(elements, 1, Len(elements) - 1)),
                          elements[Len(elements)])

GroupInputs == UNION {[1..n -> Fragments] : n \in 0..MaxFragments}

InitGroup ==
    /\ strat = "FinalWorkingExtractor.group_elements_by_rows"
    /\ strat_in \in GroupInputs
    /\ strat_out = Returned(<< >>)
    /\ strat_pc = "ready"
    /\ AsmIdle
    /\ PipeIdle
    /\ AuxIdle

\* the sort and the grouping of _extract_from_coordinates
GroupRows ==
    /\ strat_pc = "ready"
    /\ strat_out' = Returned(FinalWorkingExtractor_group_elements_by_rows(SortByPosition(strat_in)))
    /\ strat_pc' = "done"
    /\ UNCHANGED <<strat, strat_in>>
    /\ UNCHANGED <<asm_vars, pipe_vars, aux_vars>>

NextGroup == GroupRows

SpecGroup == InitGroup /\ [][NextGroup]_vars

----------------------------------------------------------------------------
(* pdf_to_json_converter.py: one run of MasterFormatConverter.              *)
(* convert_pdf_to_json.  The parser's outcome, the files that exist and the  *)
(* failures of the file system are inputs; the validator is the converter's  *)
(* own JSONValidator, built with strict_mode = config.STRICT_VALIDATION.     *)

\* config.MAX_ERRORS of the modelled configurations
MaxErrorsSettings == {1, DefaultMaxErrors}

MainInputs ==
    [input : {"pdf", "missing", "not_pdf"}, parse : {"returns", "raises"},
     raw_data : ValInputs, output_exists : BOOLEAN, writable : BOOLEAN]

\* the except clause: the error is recorded and the exception raised again; an
\* exception of add_error replaces it
MasterFormatConverter_fail(handler, exc) ==
    LET c == ErrorHandler_add_error(Context(handler), "Conversion failed")
    IN  [handler |-> c.eh, out |-> Raised(IF c.exc # "none" THEN c.exc ELSE exc)]

\* a validation step that never stops the run
MasterFormatConverter_validation_ignored(r) == "none"

\* the exception the validation step ends with ("none": the run goes on), given
\* what validate_output did
MasterFormatConverter_validation_failure(r) ==
    IF r.c.exc # "none" THEN r.c.exc
    ELSE IF ~r.ok THEN "RuntimeError" ELSE "none"

\* _save_json: the backup of an existing output file, then the output file
MasterFormatConverter_save_json(env, data) ==
    (IF env.output_exists THEN << [file |-> "backup", content |-> "previous output"] >>
     ELSE << >>)
    \o << [file |-> "output", content |-> data] >>

\* _generate_reports: validation_report.txt and conversion_summary.json
MasterFormatConverter_generate_reports(report, data) ==
    << [file |-> "validation_report", content |-> report.valid],
       [file |-> "conversion_summary",
        content |-> Validator_get_data_quality_metrics(data).total_cities] >>

InitMain ==
    /\ main_pc = "check_input"
    /\ main_env \in MainInputs
    /\ main_files = << >>
    /\ main_handler \in {ErrorHandler_init(n) : n \in MaxErrorsSettings}
    /\ main_out = Returned(EmptyMap)
    /\ val_data = EmptyMap
    /\ strict_mode \in BOOLEAN
    /\ error_handler = ErrorHandler_init(DefaultMaxErrors)
    /\ val_log = << >>
    /\ AsmIdle
    /\ StratIdle
    /\ PipeIdle
    /\ GenIdle
    /\ RowIdle
    /\ TxtIdle

\* the run ends in the except clause with exception exc
MainFails(exc) ==
    LET f == MasterFormatConverter_fail(main_handler, exc)
    IN  /\ main_handler' = f.handler
        /\ main_out' = f.out
        /\ main_pc' = "done"

\* the checks of the input path, before the try block
CheckInput ==
    /\ main_pc = "check_input"
    /\ IF main_env.input = "missing"
       THEN main_out' = Raised("FileNotFoundError") /\ main_pc' = "done"
       ELSE IF main_env.input = "not_pdf"
       THEN main_out' = Raised("ValueError") /\ main_pc' = "done"
       ELSE main_out' = main_out /\ main_pc' = "parse"
    /\ UNCHANGED <<main_env, main_files, main_handler, val_vars>>
    /\ UNCHANGED <<asm_vars, strat_vars, pipe_vars, gen_vars, row_vars, txt_vars>>

\* raw_data = self.parser.parse_pdf(...); if not raw_data: raise ValueError
ParsePdf ==
    /\ main_pc = "parse"
    /\ IF main_env.parse = "raises"
       THEN MainFails("Exception") /\ val_data' = val_data
       ELSE IF main_env.raw_data = EmptyMap
       THEN MainFails("ValueError") /\ val_data' = val_data
       ELSE /\ val_data' = main_env.raw_data
            /\ main_pc' = (IF strict_mode THEN "validate" ELSE "save")
            /\ UNCHANGED <<main_handler, main_out>>
    /\ UNCHANGED <<main_env, main_files, strict_mode, error_handler, val_log>>
    /\ UNCHANGED <<asm_vars, strat_vars, pipe_vars, gen_vars, row_vars, txt_vars>>

\* if self.config.STRICT_VALIDATION: is_valid = self.validator.validate_output(raw_data)
ValidateParsed ==
    /\ main_pc = "validate"
    /\ LET r == Validator_validate_output(Context(error_handler), strict_mode, val_data)
           exc == MasterFormatConverter_validation_failure(r)
       IN  /\ error_handler' = r.c.eh
           /\ val_log' = Append(val_log, [op |-> "validate_output", exc |-> r.c.exc,
                                          out |-> r.ok])
           /\ IF exc # "none"
              THEN MainFails(exc)
              ELSE main_pc' = "save" /\ UNCHANGED <<main_handler, main_out>>
    /\ UNCHANGED <<main_env, main_files, val_data, strict_mode>>
    /\ UNCHANGED <<asm_vars, strat_vars, pipe_vars, gen_vars, row_vars, txt_vars>>

\* self._save_json(raw_data, output_path)
SaveJson ==
    /\ main_pc = "save"
    /\ IF ~main_env.writable
       THEN MainFails("OSError") /\ main_files' = main_files
       ELSE /\ main_files' = main_files \o MasterFormatConverter_save_json(main_env, val_data)
            /\ main_pc' = "report"
            /\ UNCHANGED <<main_handler, main_out>>
    /\ UNCHANGED <<main_env, val_vars>>
    /\ UNCHANGED <<asm_vars, strat_vars, pipe_vars, gen_vars, row_vars, txt_vars>>

\* self._generate_reports(raw_data, output_path); return raw_data
GenerateReports ==
    /\ main_pc = "report"
    /\ LET r == Validator_validate_against_schema(Context(error_handler), val_data)
       IN  /\ error_handler' = r.c.eh
           /\ val_log' = Append(val_log, [op |-> "validate_against_schema", exc |-> r.c.exc,
                                          out |-> r.report])
           /\ IF r.c.exc # "none"
              THEN MainFails(r.c.exc) /\ main_files' = main_files
              ELSE /\ main_files' = main_files
                                    \o MasterFormatConverter_generate_reports(r.report, val_data)
                   /\ main_out' = Returned(val_data)
                   /\ main_pc' = "done"
                   /\ main_handler' = main_handler
    /\ UNCHANGED <<main_env, val_data, strict_mode>>
    /\ UNCHANGED <<asm_vars, strat_vars, pipe_vars, gen_vars, row_vars, txt_vars>>

NextMain ==
    \/ CheckInput
    \/ ParsePdf
    \/ ValidateParsed
    \/ SaveJson
    \/ GenerateReports

SpecMain == InitMain /\ [][NextMain]_vars

----------------------------------------------------------------------------
(* Properties of the assemblers, over SpecAsm *)

\* the call has returned a record
Assembled == asm_pc = "done" /\ asm_out.exc = "none"

\* the codes an assembler keys its divisions by, in list order
AsmCodes(a) ==
    IF a \in {"PDFParser", "FinalConverter", "FinalConverterSimple"}
    THEN DIVISION_CODES
    ELSE [i \in 1..Len(main_divisions) |-> main_divisions[i][1]]

\* the source list of type t holds a non-null value at index idx
SourceHas(city_data, t, idx) ==
    /\ t \in DOMAIN city_data
    /\ idx < Len(city_data[t])
    /\ city_data[t][idx + 1] # None

\* the record rec carries field t on division code
Carries(rec, code, t) == code \in DOMAIN rec /\ t \in DOMAIN rec[code]

\* C2: for every division index i and data type T, field T is on division i
\* exactly when the source list of T holds a non-null value at i, and the
\* value is that element (a shorter list of another type removes nothing).
C2_FieldExactlyWhenSourceHasValue ==
    Assembled =>
        \A i \in 0..(Len(AsmCodes(asm)) - 1) : \A t \in DataTypeSet :
            LET code == AsmCodes(asm)[i + 1]
            IN  /\ SourceHas(asm_in.city_data, t, i) <=> Carries(asm_out.val, code, t)
                /\ Carries(asm_out.val, code, t) => asm_out.val[code][t] = asm_in.city_data[t][i + 1]

\* the MAT list is the ABILENE row of twelve values
AbileneCase == Assembled /\ "MAT" \in DOMAIN asm_in.city_data /\ asm_in.city_data["MAT"] = AbileneMatRow

\* C3: given the ABILENE/382 MAT row of 12 values, the output omits MAT for
\* division index 8 only, keeps every other division, and shifts nothing:
\* divisions 0..7 carry row values 0..7, divisions 9..12 carry row values 8..11.
C3_AbileneOmitsMatAtIndex8 ==
    AbileneCase =>
        /\ \A i \in 0..(NumMain - 1) : main_divisions[i + 1][1] \in DOMAIN asm_out.val
        /\ ~Carries(asm_out.val, main_divisions[9][1], "MAT")
        /\ \A i \in 0..7 :
              /\ Carries(asm_out.val, main_divisions[i + 1][1], "MAT")
              /\ asm_out.val[main_divisions[i + 1][1]]["MAT"] = AbileneMatRow[i + 1]
        /\ \A i \in 9..(NumMain - 1) :
              /\ Carries(asm_out.val, main_divisions[i + 1][1], "MAT")
              /\ asm_out.val[main_divisions[i + 1][1]]["MAT"] = AbileneMatRow[i]

\* the subdivisions of a parent division code
SubsOf(code) ==
    IF code = "0241, 31 - 34" THEN concrete_subs
    ELSE IF code = "09" THEN finishes_subs ELSE << >>

\* C4: with the parent at list index i, every field of the j-th subdivision
\* nested under the parent is the element at list position i + j + 1.
C4_SubdivisionFromFollowingSlots ==
    (Assembled /\ asm \in {"FinalFixedConverter", "FinalWorkingExtractor", "CompleteRealExtractor"}) =>
        \A i \in 0..(NumMain - 1) :
            LET code == main_divisions[i + 1][1]
                subs == SubsOf(code)
            IN  (code \in DOMAIN asm_out.val /\ "subdivisions" \in DOMAIN asm_out.val[code]) =>
                    \A j \in 0..(Len(subs) - 1) : \A t \in DataTypeSet :
                        Carries(asm_out.val[code]["subdivisions"], subs[j + 1][1], t) =>
                            /\ SourceHas(asm_in.city_data, t, i + j + 1)
                            /\ asm_out.val[code]["subdivisions"][subs[j + 1][1]][t]
                                   = asm_in.city_data[t][i + j + 2]

\* an entry has one of MAT / INST / TOTAL
HasField(entry) == DOMAIN entry \cap DataTypeSet # {}

MainCodes == {main_divisions[i][1] : i \in 1..Len(main_divisions)}

\* C1: the top-level keys of an assembled city record are main division
\* codes only; no subdivision code is a top-level key.
C1_TopLevelKeysAreMainCodes ==
    Assembled => DOMAIN asm_out.val \subseteq MainCodes

----------------------------------------------------------------------------
(* Properties of the strategies, over SpecStrat *)

\* the strategy has returned
StratDone == strat_pc = "done" /\ strat_out.exc = "none"

\* C10: a strategy produces a city record only if a data row of the city
\* carries at least 10 numeric values; on a page none of whose rows carries
\* 10 values, no strategy produces a record.
C10_RecordNeedsRowOfTen ==
    StratDone =>
        LET rows == ViewOf(strat_in.blocks)
        IN  (\A i \in 1..Len(rows) : Len(RowNumbers(rows[i])) < MinRowValues)
                => DOMAIN strat_out.val = {}

----------------------------------------------------------------------------
(* Properties of the converter pipelines, over Spec *)

\* the order of the strategies of a page
CascadeOrder == << "table", "coordinates", "raw_text" >>

\* C6: on every page the strategies are attempted in the order table,
\* coordinate, raw-text; a strategy is attempted only after every earlier one
\* returned no city, and the page's result is the result of the first
\* strategy that returned a city.
C6_StrategiesInFixedOrder ==
    conv \in {"FinalWorkingExtractor", "CompleteRealExtractor"} =>
        /\ Len(tried) <= Len(CascadeOrder)
        /\ \A i \in 1..Len(tried) :
              /\ tried[i].strategy = CascadeOrder[i]
              /\ i < Len(tried) => DOMAIN tried[i].cities = {}
        /\ pc = "merge" =>
              /\ tried # << >>
              /\ page_cities = tried[Len(tried)].cities
              /\ DOMAIN page_cities # {} \/ Len(tried) = Len(CascadeOrder)

\* every page of the document was processed and none yielded a city
AllPagesEmpty ==
    /\ page_idx = num_pages
    /\ Len(page_log) = num_pages
    /\ \A p \in 1..Len(page_log) : DOMAIN page_log[p] = {}

\* the document was opened, and no page of it yielded a city
ZeroYield == opened /\ AllPagesEmpty

\* C7: the fallback generator runs only after all pages were processed and
\* none yielded a city; once a city was extracted the output holds no
\* synthetic or hardcoded record.
C7_FallbackOnlyAfterAllPagesEmpty ==
    /\ fallback = "generator" => AllPagesEmpty
    /\ (\E p \in 1..Len(page_log) : DOMAIN page_log[p] # {}) => fallback # "generator"

PageKeys == UNION {DOMAIN page_log[p] : p \in 1..Len(page_log)}

LastPageWith(k) ==
    CHOOSE p \in 1..Len(page_log) :
        /\ k \in DOMAIN page_log[p]
        /\ \A q \in (p + 1)..Len(page_log) : k \notin DOMAIN page_log[q]

\* C9: the merged mapping holds exactly the keys the pages produced, one entry
\* per key, and the entry of a key is the record of the last page that
\* produced it; a page changes no entry under another key.  The returned
\* mapping of a run that extracted a city is that mapping.
C9_LaterPageWins ==
    /\ fallback = "none" =>
          /\ DOMAIN all_cities = PageKeys
          /\ \A k \in PageKeys : all_cities[k] = page_log[LastPageWith(k)][k]
    /\ (pc = "done" /\ result.exc = "none" /\ fallback = "none") =>
          /\ DOMAIN result.val = PageKeys
          /\ \A k \in PageKeys : result.val[k] = page_log[LastPageWith(k)][k]

\* C9 witness: two pages produced different records under one key and the
\* run returned the record of the second
C9_Witness ==
    /\ pc = "done" /\ result.exc = "none" /\ fallback = "none"
    /\ Len(page_log) = 2
    /\ \E k \in DOMAIN page_log[1] \cap DOMAIN page_log[2] :
          /\ page_log[1][k] # page_log[2][k]
          /\ result.val[k] = page_log[2][k]

\* C11: an error raised while a strategy processes a page never aborts the
\* run: an opened run ends only after every page was processed, and the
\* cities of the earlier pages are in the mapping it returns.
C11_PageErrorNeverAborts ==
    (pc = "done" /\ opened) =>
        /\ page_idx = num_pages
        /\ Len(page_log) = num_pages
        /\ result.exc # "PageError"
        /\ fallback = "none" => PageKeys \subseteq DOMAIN result.val

----------------------------------------------------------------------------
(* Properties of the fallback generators, over SpecGen *)

\* C12: any two invocations of the fallback generator with the same catalog
\* produce the same output for every city and division, whatever random use
\* happened in between.
C12_GeneratorRepeatable ==
    \A i, j \in 1..Len(gen_log) :
        (gen_log[i].op = "generate" /\ gen_log[j].op = "generate")
            => gen_log[i].out = gen_log[j].out

----------------------------------------------------------------------------
(* Properties of the validator, over SpecVal *)

SchemaCalls == {i \in 1..Len(val_log) : val_log[i].op = "validate_against_schema"}

OutputCalls == {i \in 1..Len(val_log) : val_log[i].op = "validate_output"}

MetricsCalls == {i \in 1..Len(val_log) : val_log[i].op = "get_data_quality_metrics"}

Messages(list) == {list[n] : n \in 1..Len(list)}

\* C13: validating the same mapping twice with the same validator yields
\* identical reports: valid flag, counts, missing-division list, errors and
\* warnings of the second report are those of the first.
C13_ValidateTwiceSameReport ==
    \A i, j \in SchemaCalls :
        /\ val_log[i].exc = val_log[j].exc
        /\ val_log[i].out = val_log[j].out

\* C14: given the empty mapping the validator reports valid = False, records
\* the 'No city data found' error and reports zero cities processed.
C14_EmptyMappingNoCityData ==
    val_data = EmptyMap =>
        /\ \A i \in SchemaCalls :
              /\ ~val_log[i].out.valid
              /\ val_log[i].out.cities_processed = 0
              /\ "No city data found" \in Messages(val_log[i].out.errors)
        /\ \A i \in OutputCalls :
              /\ ~val_log[i].out
              /\ "No city data found" \in Messages(error_handler.errors)

\* a division entry with a description and the three numeric values
WellFormedEntry(entry) ==
    /\ "division" \in DOMAIN entry
    /\ \A t \in DataTypeSet : t \in DOMAIN entry /\ entry[t] # None

WellFormedCity(city_data) ==
    \A code \in DOMAIN city_data : WellFormedEntry(city_data[code])

WellFormedData == \A k \in DOMAIN val_data : WellFormedCity(val_data[k])

\* at least 80% of the 13 main divisions are among the keys of the city
HasMostMainDivisions(city_data) ==
    10 * Cardinality(MainCodeSet \cap DOMAIN city_data) >= 8 * NumMain

CitiesWithMostMain == {k \in DOMAIN val_data : HasMostMainDivisions(val_data[k])}

\* C15: under strict mode a city with well-formed entries is valid exactly
\* when at least 80% of the 13 main divisions are among its keys, and the
\* document is valid only if at least 80% of its cities are valid.
C15_StrictEightyPercentOfMain ==
    (strict_mode /\ WellFormedData /\ val_data # EmptyMap) =>
        /\ \A i \in SchemaCalls :
              /\ val_log[i].out.cities_valid = Cardinality(CitiesWithMostMain)
              /\ val_log[i].out.valid =>
                    10 * Cardinality(CitiesWithMostMain) >= 8 * Cardinality(DOMAIN val_data)
        /\ \A i \in OutputCalls :
              val_log[i].out =>
                  10 * Cardinality(CitiesWithMostMain) >= 8 * Cardinality(DOMAIN val_data)

\* C16: for a non-empty mapping whose cities hold only well-formed entries,
\* validate_against_schema reports every city processed, every city valid and
\* valid = True, also when a city lists only a few of the divisions.
C16_WellFormedDataIsValid ==
    (val_data # EmptyMap /\ WellFormedData /\ \A k \in DOMAIN val_data : val_data[k] # EmptyMap) =>
        \A i \in SchemaCalls :
            /\ val_log[i].out.cities_processed = Cardinality(DOMAIN val_data)
            /\ val_log[i].out.cities_valid = val_log[i].out.cities_processed
            /\ val_log[i].out.valid

\* the (city, main division, data type) triples of the mapping that carry a value
PairsWithValue ==
    {p \in (DOMAIN val_data) \X MainCodeSet \X DataTypeSet :
        /\ p[2] \in DOMAIN val_data[p[1]]
        /\ p[3] \in DOMAIN val_data[p[1]][p[2]]
        /\ val_data[p[1]][p[2]][p[3]] # None}

\* C17: the data completeness percentage is 100 times the number of pairs
\* that carry a value, divided by 13 x 3 x the number of cities.
C17_CompletenessOverAllPairs ==
    val_data # EmptyMap =>
        \A i \in MetricsCalls :
            val_log[i].out.data_completeness_percentage.num
                    * (NumMain * 3 * Cardinality(DOMAIN val_data))
                = 100 * Cardinality(PairsWithValue)
                    * val_log[i].out.data_completeness_percentage.den

----------------------------------------------------------------------------
(* Properties of the error handler, over SpecErr *)

AddErrorCalls == {i \in 1..Len(val_log) : val_log[i].op = "add_error"}

\* the add_error calls up to call i, when the handler was never cleared before it
ErrorsUpTo(i) == {j \in AddErrorCalls : j <= i}

NeverCleared(i) == \A j \in 1..i : val_log[j].op # "clear"

\* C18: with limit N the first N calls of add_error complete without raising
\* and are recorded; the N+1-th raises RuntimeError.
C18_FirstNCallsComplete ==
    \A i \in AddErrorCalls :
        NeverCleared(i) =>
            /\ Cardinality(ErrorsUpTo(i)) <= error_handler.max_errors =>
                  /\ val_log[i].exc = "none"
                  /\ val_log[i].out = Cardinality(ErrorsUpTo(i))
            /\ Cardinality(ErrorsUpTo(i)) = error_handler.max_errors + 1 =>
                  val_log[i].exc = "RuntimeError"

----------------------------------------------------------------------------
(* Properties of the row classifier, over SpecRow *)

IsDecimalToken(tok) ==
    /\ \A k \in 1..Len(tok) : IsDigit(tok[k]) \/ tok[k] = "."
    /\ Len(FindNumbers(tok, 1)) = 1

DecimalLine(line) ==
    /\ Len(line) >= 2
    /\ line[1] \in LabelTokens
    /\ \A n \in 2..Len(line) : IsDecimalToken(line[n])

ValuesInOrder(line) == [n \in 1..(Len(line) - 1) |-> FindNumbers(line[n + 1], 1)[1]]

\* C19: a line that starts with MAT, MAT., INST, INST., TOTAL or TOTAL. and
\* goes on with decimal values is classified as a data row of that kind, with
\* the values in order.
C19_LabelWithOrWithoutPeriod ==
    (row_pc # "ready" /\ DecimalLine(row_line)) =>
        /\ row_first.matched
        /\ row_first.data_type = RemovePeriod(row_line[1])
        /\ row_first.values = ValuesInOrder(row_line)

\* C20: a line the classifier accepts, written back as its kind followed by
\* the space-joined values and parsed again, gives the same kind and values.
C20_ParseSerialiseParse ==
    (row_pc = "reparsed" /\ DecimalLine(row_line)) =>
        /\ row_second.matched
        /\ row_second.data_type = row_first.data_type
        /\ row_second.values = row_first.values

----------------------------------------------------------------------------
(* Properties of the City/ZIP recognizers and the key builders, over SpecText *)

Recognised == txt_pc = "done" /\ txt_in.kind = "fragment"

Letters(text) == SelectSeq(text, LAMBDA ch : IsUpper(ch) \/ IsLower(ch))

\* fewer than half of the characters of the name are letters
MostlyNonAlphabetic(name) == 2 * Len(Letters(name)) < Len(name)

Rejectable(name) ==
    \/ Len(name) < MinNameLength
    \/ MostlyNonAlphabetic(name)
    \/ ToUpper(name) \in exclude_terms

\* C21: a fragment 'CITY zip_spec' whose zip_spec is a 3-digit code, a range
\* of two codes or a comma-separated list of codes and ranges is accepted, and
\* the city name and the zip_spec are returned unchanged.
C21_AcceptsEveryZipSpec ==
    (Recognised /\ ~Rejectable(txt_in.name)) =>
        /\ txt_out.utils = [matched |-> TRUE, city_name |-> txt_in.name,
                            zip_codes |-> txt_in.zip]
        /\ txt_out.cell = [matched |-> TRUE, city_name |-> txt_in.name,
                           zip_codes |-> txt_in.zip]

\* C22: a fragment that is shorter than 3 characters, mostly non-alphabetic
\* or whose name is a term of the exclusion vocabulary is never returned as a
\* (city, zip) pair.
C22_RejectsNonCities ==
    (Recognised /\ Rejectable(txt_in.name)) =>
        /\ ~txt_out.utils.matched
        /\ ~txt_out.cell.matched

\* C23: create_city_key gives the cleaned, upper-cased name with every run of
\* whitespace replaced by one underscore, then '_' and the ZIP spec with its
\* spacing kept; DataProcessor.create_city_key and the parser's key builder
\* agree.
C23_CityKeyUnderscoresAndAgreement ==
    (txt_pc = "done" /\ txt_in.kind = "key") =>
        /\ txt_out.utils = SubSpaces(ToUpper(CleanText(txt_in.name)), <<"_">>)
                               \o <<"_">> \o txt_in.zip
        /\ txt_out.utils = txt_out.parser

----------------------------------------------------------------------------
(* Properties of the parser's text strategy, over SpecStrat *)

\* the page starts with a city/ZIP header line followed by separate MAT.,
\* INST. and TOTAL rows of 20 values each
HeaderThenThreeRows(page) ==
    /\ page.blocks # << >>
    /\ page.blocks[1].lay = "rows"
    /\ page.blocks[1].hk = "joined"
    /\ \A t \in DataTypeSet : page.blocks[1].pat[t] = MaxRowLen - 1

\* C24: from page lines in which a city/ZIP header line is followed by
\* separate MAT., INST. and TOTAL rows of 20 values the parser extracts a
\* non-empty record for that city.
C24_ParserReadsHeaderThenRows ==
    (strat = "PDFParser.text" /\ strat_pc = "done" /\ HeaderThenThreeRows(strat_in)) =>
        LET key == CityKey(strat_in.blocks[1].city, CityOf(strat_in.blocks[1].city).zip)
        IN  /\ strat_out.exc = "none"
            /\ key \in DOMAIN strat_out.val
            /\ strat_out.val[key] # EmptyMap

GroupDone == strat = "FinalWorkingExtractor.group_elements_by_rows" /\ strat_pc = "done"

\* the fragments in the order the grouping receives them, and the rows it returns
SortedFragments == SortByPosition(strat_in)
GroupedRows == strat_out.val

\* the rows are the sorted fragments cut into non-empty pieces: every fragment is in
\* exactly one row, and the order is kept
RowsPartitionFragments ==
    /\ Concat(GroupedRows) = SortedFragments
    /\ \A k \in 1..Len(GroupedRows) : GroupedRows[k] # << >>

\* the row (1-based) that holds the i-th sorted fragment
RECURSIVE RowIndexOf(_, _, _)
RowIndexOf(rows, i, k) ==
    IF k >= Len(rows) \/ i <= Len(rows[k]) THEN k
    ELSE RowIndexOf(rows, i - Len(rows[k]), k + 1)

\* C25 as stated: in the coordinate strategy the sorted fragments are partitioned
\* into rows in order, and two fragments adjacent in that order are in the same row
\* exactly when their y-coordinates differ by at most 5
C25_AdjacentWithinToleranceSameRow ==
    GroupDone =>
        /\ RowsPartitionFragments
        /\ \A i \in 1..(Len(SortedFragments) - 1) :
               (RowIndexOf(GroupedRows, i, 1) = RowIndexOf(GroupedRows, i + 1, 1))
                   <=> (Abs(SortedFragments[i + 1].y - SortedFragments[i].y) <= RowTolerance)

\* C25, amended: the sorted fragments are partitioned into rows in order; a fragment
\* is in the row of the fragment before it exactly when its y-coordinate differs by
\* at most 5 from the y-coordinate of the first fragment of that row
C25_WithinToleranceOfRowStart ==
    GroupDone =>
        /\ RowsPartitionFragments
        /\ \A i \in 1..(Len(SortedFragments) - 1) :
               LET k == RowIndexOf(GroupedRows, i, 1)
               IN  (RowIndexOf(GroupedRows, i + 1, 1) = k)
                       <=> (Abs(SortedFragments[i + 1].y - GroupedRows[k][1].y) <= RowTolerance)

\* three fragments, each within the tolerance of the one before it, the third
\* farther than the tolerance from the first: grouped into two rows
C25_Witness ==
    /\ GroupDone
    /\ Len(SortedFragments) = 3
    /\ Abs(SortedFragments[2].y - SortedFragments[1].y) <= RowTolerance
    /\ Abs(SortedFragments[3].y - SortedFragments[2].y) <= RowTolerance
    /\ Abs(SortedFragments[3].y - SortedFragments[1].y) > RowTolerance
    /\ Len(GroupedRows) = 2
    /\ strat_in # SortedFragments

\* C26: after any sequence of add_error calls on one ErrorHandler, the calls whose
\* RuntimeError the caller catches included, the number of recorded errors never
\* exceeds max_errors
C26_ErrorsNeverExceedMax ==
    (val_log # << >> /\ val_log[Len(val_log)].op = "add_error") =>
        Len(error_handler.errors) <= error_handler.max_errors

\* the non-null values of a source list are pairwise different, so that a value of
\* the output names the list position it was read from
DistinctValues(list) ==
    \A p, q \in 1..Len(list) : (p # q /\ list[p] # None) => list[p] # list[q]

\* C27: in an assembled city record no position of a source MAT/INST/TOTAL list
\* feeds more than one output field: a value nested as a subdivision value is the
\* value of no main division, its own parent included
C27_SubdivisionPositionsDisjointFromMain ==
    (Assembled /\ asm \in {"FinalFixedConverter", "FinalWorkingExtractor"}) =>
        \A t \in DataTypeSet :
            (t \in DOMAIN asm_in.city_data /\ DistinctValues(asm_in.city_data[t])) =>
                \A code \in DOMAIN asm_out.val : \A m \in DOMAIN asm_out.val :
                    ("subdivisions" \in DOMAIN asm_out.val[code] /\ Carries(asm_out.val, m, t)) =>
                        \A s \in DOMAIN asm_out.val[code]["subdivisions"] :
                            Carries(asm_out.val[code]["subdivisions"], s, t) =>
                                asm_out.val[code]["subdivisions"][s][t] # asm_out.val[m][t]

\* block b of a page shows a city header the strategies detect, in a row of its own
DetectedHeader(b) == b.lay = "rows" /\ b.hk = "joined"

\* no data row of block b carries 10 numbers or more
NoFullRow(b) == \A t \in DataTypeSet : b.pat[t] < MinRowValues

\* a page of two cities: the first with three full data rows, the second a detected
\* header whose nearby rows all carry fewer than 10 numbers (the table strategy
\* reads the rows of the block's own table)
HeaderWithoutDataAfterCity ==
    /\ strat \in {"FinalWorkingExtractor.tables", "FinalWorkingExtractor.coordinates"}
    /\ strat_pc = "done"
    /\ Len(strat_in.blocks) = 2
    /\ strat_in.blocks[1].city # strat_in.blocks[2].city
    /\ DetectedHeader(strat_in.blocks[1])
    /\ \A t \in DataTypeSet : strat_in.blocks[1].pat[t] = NumMain
    /\ ~strat_in.blocks[1].pat.gap
    /\ DetectedHeader(strat_in.blocks[2])
    /\ NoFullRow(strat_in.blocks[2])
    /\ strat = "FinalWorkingExtractor.tables" => strat_in.shape = "each"

\* C29: in the table and coordinate strategies a detected city header with no data
\* row of at least 10 numbers nearby is skipped without an error, and the cities
\* found earlier on the page are still returned
C29_HeaderWithoutDataIsSkipped ==
    HeaderWithoutDataAfterCity =>
        LET first == CityOf(strat_in.blocks[1].city)
            second == CityOf(strat_in.blocks[2].city)
        IN  /\ strat_out.exc = "none"
            /\ CityKey(first.name, first.zip) \in DOMAIN strat_out.val
            /\ CityKey(second.name, second.zip) \notin DOMAIN strat_out.val

\* the page of the first city alone
FirstCityPage == [strat_in EXCEPT !.blocks = << strat_in.blocks[1] >>]

\* a page of two cities in the coordinate strategy: both headers are detected and
\* the second city has its three full data rows
TwoCitiesByCoordinates ==
    /\ strat = "FinalWorkingExtractor.coordinates"
    /\ strat_pc = "done"
    /\ Len(strat_in.blocks) = 2
    /\ strat_in.blocks[1].city # strat_in.blocks[2].city
    /\ DetectedHeader(strat_in.blocks[1])
    /\ DetectedHeader(strat_in.blocks[2])
    /\ \A t \in DataTypeSet : strat_in.blocks[2].pat[t] = NumMain

\* C28: in the coordinate strategy the data rows attributed to a city lie between
\* its header row and the next city header row: the record of the first city is
\* the record its own rows give, whatever city follows on the page
C28_RowsOfNextCityNotAttributed ==
    TwoCitiesByCoordinates =>
        LET first == CityOf(strat_in.blocks[1].city)
            key == CityKey(first.name, first.zip)
            alone == FinalWorkingExtractor_extract_from_coordinates(ElementsOf(FirstCityPage))
        IN  /\ key \in DOMAIN alone <=> key \in DOMAIN strat_out.val
            /\ key \in DOMAIN alone => strat_out.val[key] = alone[key]

\* a run of the main converter in strict mode
StrictRun == main_pc # "idle" /\ strict_mode

\* validate_output was called on the parsed mapping and returned True / did not
ValidationPassed ==
    \E n \in 1..Len(val_log) :
        val_log[n].op = "validate_output" /\ val_log[n].exc = "none" /\ val_log[n].out = TRUE

ValidationFailed ==
    \E n \in 1..Len(val_log) :
        val_log[n].op = "validate_output" /\ (val_log[n].exc # "none" \/ val_log[n].out = FALSE)

\* C30: in strict mode the main converter writes the output file, the backup and
\* the reports only after validate_output returned True for the parsed mapping;
\* when the validation fails the run raises and has written no file; the mapping
\* returned on success is the parser's mapping, and it is what the output file holds
C30_WritesOnlyAfterValidation ==
    StrictRun =>
        /\ main_files # << >> => (ValidationPassed /\ val_data = main_env.raw_data)
        /\ ValidationFailed =>
               /\ main_files = << >>
               /\ main_pc = "done"
               /\ main_out.exc # "none"
        /\ (main_pc = "done" /\ main_out.exc = "none") =>
               /\ main_out.val = main_env.raw_data
               /\ ValidationPassed
               /\ \E n \in 1..Len(main_files) :
                      main_files[n] = [file |-> "output", content |-> main_env.raw_data]

\* a strict run on a mapping the validator rejects, an output file being there
\* already: the run has raised RuntimeError and written neither backup nor output
C30_Witness ==
    /\ StrictRun
    /\ main_pc = "done"
    /\ ValidationFailed
    /\ main_out = Raised("RuntimeError")
    /\ main_env.output_exists /\ main_env.writable
    /\ main_env.raw_data # EmptyMap
    /\ Len(main_handler.errors) = 1
    /\ main_files = << >>

====
